---------------------------- MODULE Spec2Model ----------------------------
(***************************************************************************)
(* The concurrent ingestion pipeline of make.py: the Producer (the thread  *)
(* that called make and runs process_sources), the Writer thread           *)
(* (db_writer_worker), the Monitor thread (monitor_worker), the bounded    *)
(* queue.Queue between them, the stop Event and the Stats counters.        *)
(*                                                                         *)
(* Every action is one atomic step of one thread.  A step holds at most    *)
(* one access to shared state; thread-local computation is folded into the *)
(* shared access that follows it.                                          *)
(***************************************************************************)
EXTENDS Integers, Sequences, FiniteSets

(***************************************************************************)
(* Bounds of the model.                                                    *)
(***************************************************************************)
\* queue.Queue(maxsize=2000) in make.py is scaled down to a capacity that
\* the bounded runs below can fill.
maxsize == 2
\* The most records the scraper/parser chains yield in one run.
MaxRecords == 4
\* The most source descriptors in sources.json.
MaxSources == 2

(***************************************************************************)
(* The registries and the configurations.                                  *)
(***************************************************************************)
SCRAPERS == {"myrient", "internet_archive", "nopaystation", "mariocube"}

PARSERS == {"no_intro", "libretro", "gametdb", "mame", "wii_rom_set_by_ghostware"}

get_scraper(name) == IF name \in SCRAPERS THEN name ELSE "None"

get_parser(name) == IF name \in PARSERS THEN name ELSE "None"

\* The scraper names and parser chains the configurations are built from:
\* one registered and one unregistered name each.
ScraperNames == {"myrient", "does_not_exist"}

ParserChains == {<<"no_intro">>, <<"no_intro", "does_not_exist">>}

SourceDescriptors == [scraper : ScraperNames, parsers : ParserChains]

SeqsUpTo(S, n) == UNION {[1..k -> S] : k \in 0..n}

RECURSIVE SumLen(_)
SumLen(lists) ==
    IF lists = <<>> THEN 0 ELSE Len(Head(lists)) + SumLen(Tail(lists))

\* What load_sources can return: an ordered mapping platform -> ordered list
\* of source descriptors, here the sequence of the platforms' lists.
Configs ==
    {c \in SeqsUpTo(SeqsUpTo(SourceDescriptors, MaxSources) \ {<<>>}, MaxSources) :
        SumLen(c) <= MaxSources}

VARIABLES
    mpc,            \* make: position of the calling thread
    sources,        \* make: the loaded configuration
    exc,            \* make: the exception process_sources raised, or "none"
    plat, idx,      \* process_sources: current platform and source (1-based)
    ppc,            \* process_sources: position inside the current source
    nyield,         \* process_sources: records the current chain has yielded
    entry_p,        \* process_sources: the entry being put
    entry_queue,    \* queue.Queue: the items held (put, not yet got)
    unfinished,     \* queue.Queue.unfinished_tasks
    stop_event,     \* threading.Event
    enqueued,       \* stats.enqueued
    written,        \* stats.written
    lock,           \* stats.lock: "free" or the thread holding it
    wpc,            \* db_writer_worker: position
    entry_w,        \* db_writer_worker: the entry got from the queue
    wexc,           \* db_writer_worker: the exception in flight, or "none"
    mon,            \* monitor_worker: position
    enq, wr,        \* monitor_worker: the sampled counters
    last_enqueued,  \* monitor_worker
    last_written,   \* monitor_worker
    yieldLog,       \* history: the entries the chains yielded, in order
    putLog,         \* history: the entries put() accepted, in order
    dbLog,          \* history: the calls made on db_manager, in order
    stopCount,      \* history: number of stop_event.set() calls
    stats_line,     \* output: the [STATS] line of the Monitor's current iteration
    db_line,        \* output: the [DB] report of the Writer's current iteration
    report,         \* Writer: its locals qsize, enq and wr of the report
    ncalls,         \* history: number of calls of make in this process
    web,            \* the network: per source, what the fetch of each URL gives
    direct_fetch,   \* the network: what a requests.get made directly does
    libretro_platforms, \* the platforms of the configuration that are keys of
                    \* PLATFORMS of parsers/libretro.py
    chain,          \* the generators of the current source: their positions
    scrapeLog,      \* history: the entries the scrapers produced, in order
    applied         \* history: per entry, the parsers that processed it

vars == <<mpc, sources, exc, plat, idx, ppc, nyield, entry_p, entry_queue,
          unfinished, stop_event, enqueued, written, lock, wpc, entry_w, wexc,
          mon, enq, wr, last_enqueued, last_written, yieldLog, putLog, dbLog,
          stopCount, stats_line, db_line, ncalls, web, direct_fetch, chain,
          scrapeLog, applied, report, libretro_platforms>>

NoEntry == <<0, 0, 0>>

\* No line printed in the current iteration; a printed line is <<line>>.
NoLine == <<>>

\* The locals qsize, enq and wr of db_writer_worker outside a report: not
\* read before they are assigned again.
NoReport == [qsize |-> 0, enq |-> 0, wr |-> 0]

\* The generators of a source before the first entry is requested: the
\* URL loop of the scraper at its first URL (u) with no row of it yielded
\* (k); internet_archive.scrape not called (scraped, ia_entries: its list);
\* the list of no_intro.parse not built (listed, entries).  boxarts holds the
\* platforms whose PLATFORMS entry of libretro has 'available_boxarts': a
\* module-level dict, kept from source to source.
NewChain ==
    [u |-> 1, k |-> 0, scraped |-> FALSE, ia_entries |-> <<>>,
     listed |-> FALSE, entries |-> <<>>, boxarts |-> {}]

Init ==
    /\ mpc = "load"
    /\ sources = <<>>
    /\ exc = "none"
    /\ plat = 1
    /\ idx = 1
    /\ ppc = "open"
    /\ nyield = 0
    /\ entry_p = NoEntry
    /\ entry_queue = <<>>
    /\ unfinished = 0
    /\ stop_event = FALSE
    /\ enqueued = 0
    /\ written = 0
    /\ lock = "free"
    /\ wpc = "unstarted"
    /\ entry_w = NoEntry
    /\ wexc = "none"
    /\ mon = "unstarted"
    /\ enq = 0
    /\ wr = 0
    /\ last_enqueued = 0
    /\ last_written = 0
    /\ yieldLog = <<>>
    /\ putLog = <<>>
    /\ dbLog = <<>>
    /\ stopCount = 0
    /\ stats_line = NoLine
    /\ db_line = NoLine
    /\ report = NoReport
    /\ ncalls = 1
    /\ web = <<>>
    /\ direct_fetch = "ok"
    /\ libretro_platforms = {}
    /\ chain = NewChain
    /\ scrapeLog = <<>>
    /\ applied = <<>>

(***************************************************************************)
(* queue.Queue, as make.py uses it.                                        *)
(***************************************************************************)
\* Mutant of PutBlocked: the capacity in force is twice the one the queue
\* was built with.
PutBlocked_Doubled == Len(entry_queue) >= 2 * maxsize

\* Mutant of PutBlocked: the queue is unbounded, put() never blocks.
PutBlocked_Never == FALSE

\* Mutant of PutBlocked: put() gives up waiting once the Writer thread has
\* ended with an exception.
PutBlocked_WhileWriterAlive == Len(entry_queue) >= maxsize /\ wpc # "dead"

\* Mutant of PutBlocked: put() lets one item more in than maxsize.
PutBlocked_OffByOne == Len(entry_queue) > maxsize

\* Mutant of PutBlocked: put() waits on the unacknowledged items
\* (unfinished_tasks) instead of the items held.
PutBlocked_OnUnfinished == unfinished >= maxsize

\* put() blocks while the queue holds maxsize items.
PutBlocked == Len(entry_queue) >= maxsize

\* Mutant of Put: the entry is added at the head of the queue.
Put_Front(entry) ==
    /\ entry_queue' = <<entry>> \o entry_queue
    /\ unfinished' = unfinished + 1

\* The effect of put(entry) once it is accepted.
Put(entry) ==
    /\ entry_queue' = Append(entry_queue, entry)
    /\ unfinished' = unfinished + 1

\* Mutant of JoinReturns: join() does not wait.
JoinReturns_Always == TRUE

\* join() blocks until every accepted item has been acknowledged by task_done.
JoinReturns == unfinished = 0

(***************************************************************************)
(* make: the calling thread, up to the Producer loop.                      *)
(***************************************************************************)
\* config = load_config(); sources = load_sources(), the file holding one of
\* the configurations of the set given
MakeLoadFrom(configs) ==
    /\ mpc = "load"
    /\ \E c \in configs : sources' = c
    /\ mpc' = "start_writer"
    /\ UNCHANGED <<exc, plat, idx, ppc, nyield, entry_p, entry_queue, unfinished,
                   stop_event, enqueued, written, lock, wpc, entry_w, wexc, mon, enq,
                   wr, last_enqueued, last_written, putLog, dbLog, stopCount, yieldLog,
                   stats_line, db_line, ncalls,
                   web, direct_fetch, chain, scrapeLog, applied, report,
                   libretro_platforms>>

MakeLoad == MakeLoadFrom(Configs)

\* Mutant of MakeStartWriter: make opens the database itself before it
\* starts the Writer thread.
MakeStartWriter_InitDb ==
    /\ mpc = "start_writer"
    /\ wpc' = "init"
    /\ mpc' = "start_monitor"
    /\ dbLog' = Append(dbLog, [op |-> "init", by |-> "make", entry |-> <<0, 0, 0>>,
                               outcome |-> "ok"])
    /\ UNCHANGED <<sources, exc, plat, idx, ppc, nyield, entry_p, entry_queue,
                   unfinished, stop_event, enqueued, written, lock, entry_w, wexc, mon,
                   enq, wr, last_enqueued, last_written, putLog, stopCount, yieldLog,
                   stats_line, db_line, ncalls,
                   web, direct_fetch, chain, scrapeLog, applied, report,
                   libretro_platforms>>

\* entry_queue = Queue(maxsize); stop_event = Event(); writer_thread.start()
MakeStartWriter ==
    /\ mpc = "start_writer"
    /\ wpc' = "init"
    /\ mpc' = "start_monitor"
    /\ UNCHANGED <<sources, exc, plat, idx, ppc, nyield, entry_p, entry_queue,
                   unfinished, stop_event, enqueued, written, lock, entry_w, wexc, mon,
                   enq, wr, last_enqueued, last_written, putLog, dbLog, stopCount, yieldLog,
                   stats_line, db_line, ncalls,
                   web, direct_fetch, chain, scrapeLog, applied, report,
                   libretro_platforms>>

\* monitor_thread.start(); then the try block is entered
MakeStartMonitor ==
    /\ mpc = "start_monitor"
    /\ mon' = "check"
    /\ mpc' = "process"
    /\ UNCHANGED <<sources, exc, plat, idx, ppc, nyield, entry_p, entry_queue,
                   unfinished, stop_event, enqueued, written, lock, wpc, entry_w,
                   wexc, enq, wr, last_enqueued, last_written, putLog, dbLog, stopCount, yieldLog,
                   stats_line, db_line, ncalls,
                   web, direct_fetch, chain, scrapeLog, applied, report,
                   libretro_platforms>>

(***************************************************************************)
(* The generator chain of a source: scraper.scrape and the parse functions *)
(* of its parsers, as process_sources composes them.  The chain runs in    *)
(* the calling thread and touches no shared state, so one request of the   *)
(* Producer loop for the next entry is one step.                           *)
(***************************************************************************)
\* The most URLs of the sources of one configuration.
MaxUrls == 2
\* The most rows the listing behind one URL holds, and the most rows of
\* the listings of one configuration.
MaxRows == 2

\* What a request made with requests.get does: it answers, it answers with
\* an error status (r.ok is false), or it raises (no connection, timeout).
DirectOutcomes == {"ok", "not_ok", "raise"}

\* The kinds of rows of a listing whose PKG link starts with "http".  A
\* row of every scraper but nopaystation gives an entry with direct links.
\* A row of a nopaystation listing is one of: "direct", the PKG link does
\* not end in ".xml"; "xml", an ".xml" link whose document lists pieces,
\* the row holding no licence for its platform; "xml_licensed", an ".xml"
\* link whose document is well formed, the row holding the RAP (ps3) or the
\* zRIF (psv) and the Content ID that add_ps3_links and add_psv_links make
\* a link from; "xml_empty", an ".xml" link whose document lists no
\* <pieces>, no licence; "xml_malformed", an ".xml" link answered with a
\* body that is no XML document, no licence.
RowKinds(scraper) ==
    IF scraper = "nopaystation"
    THEN {"direct", "xml", "xml_licensed", "xml_empty", "xml_malformed"}
    ELSE {"direct"}

XmlKinds == {"xml", "xml_licensed", "xml_empty", "xml_malformed"}

\* The rows of the listing behind one URL, all of one kind.
Listings(scraper) ==
    {q \in SeqsUpTo(RowKinds(scraper), MaxRows) :
        \A a, b \in 1..Len(q) : q[a] = q[b]}

\* What fetch_url gives for one URL: None (the request raised or r.ok was
\* false), or the response, here the rows the scraper extracts from it.
\* A URL of internet_archive names a directory of an item: "item" numbers
\* the items in the order of their first URL, "rank" is the position of
\* the files of the directory among the files of the item's metadata, as
\* the listing orders the directories named, "ok" and "json" tell what the
\* fetch of the item's metadata gives: no response, a response that is no
\* JSON text, or the metadata, "rows" being the files of the directory
\* that pass the filter.
UrlOutcomes(scraper) ==
    IF scraper = "internet_archive"
    THEN {o \in [ok : BOOLEAN, json : BOOLEAN, rows : Listings(scraper),
                 item : 1..MaxUrls, rank : 1..MaxUrls] :
            /\ o.ok \/ o.json
            /\ (o.ok /\ o.json) \/ o.rows = <<>>}
    ELSE {[ok |-> FALSE, rows |-> <<>>]} \cup
         {[ok |-> TRUE, rows |-> r] : r \in Listings(scraper)}

\* The URLs of one descriptor of internet_archive: the items are numbered
\* by first appearance, the URLs of one item share the answer to the one
\* fetch of its metadata, and the ranks of the URLs of an item number them.
ItemsWellFormed(w) ==
    \A u \in 1..Len(w) :
        /\ \A it \in 1..(w[u].item - 1) : \E v \in 1..(u - 1) : w[v].item = it
        /\ w[u].rank <= Cardinality({v \in 1..Len(w) : w[v].item = w[u].item})
        /\ \A v \in 1..Len(w) :
            w[v].item = w[u].item =>
                /\ w[v].ok = w[u].ok
                /\ w[v].json = w[u].json
                /\ v # u => w[v].rank # w[u].rank

RECURSIVE SumRows(_)
SumRows(urls) ==
    IF urls = <<>> THEN 0 ELSE Len(Head(urls).rows) + SumRows(Tail(urls))

\* The chains of source['parsers']: the keys of a JSON object, so distinct
\* names; here every chain of at most two registered parsers, and one of a
\* name that is not registered.
ChainParsers ==
    {<<>>} \cup {<<a>> : a \in PARSERS} \cup
    {p \in PARSERS \X PARSERS : p[1] # p[2]} \cup
    {<<"does_not_exist">>}

\* What the network answers for the URLs of a source of the scraper named.
Webs(scraper) ==
    {w \in SeqsUpTo(UrlOutcomes(scraper), MaxUrls) :
        /\ SumRows(w) <= MaxRows
        /\ scraper = "internet_archive" => ItemsWellFormed(w)}

\* libretro is one of the parsers of the source.
UsesLibretro(source) ==
    \E i \in 1..Len(source.parsers) : source.parsers[i] = "libretro"

\* A row of the listings holds a licence that parse_links makes a link
\* from: the platform is "ps3" or "psv", both keys of PLATFORMS of
\* parsers/libretro.py.
HasLicence(urls) ==
    \E u \in 1..Len(urls) : \E k \in 1..Len(urls[u].rows) :
        urls[u].rows[k] = "xml_licensed"

\* Whether a source makes a request with requests.get: libretro.parse for
\* the boxart index of a platform it knows, nopaystation.parse_links for an
\* ".xml" link.
MakesDirectFetch(source, urls, known) ==
    \/ UsesLibretro(source) /\ known
    \/ \E u \in 1..Len(urls) : \E k \in 1..Len(urls[u].rows) :
            urls[u].rows[k] \in XmlKinds

\* The numbers of sources a configuration of the URLs given has: the
\* sources of a configuration name at most MaxUrls URLs and their listings
\* hold at most MaxRows rows in all.
Copies(urls) ==
    {n \in 1..MaxSources :
        n * Len(urls) <= MaxUrls /\ n * SumRows(urls) <= MaxRows}

\* make up to the start of the threads.  The configurations and networks
\* the chains are run on: one platform with one or more sources of one
\* descriptor, hence of the same URLs, the network answering each URL in
\* one of the ways of UrlOutcomes and fixed for the run; the platform is a
\* key of PLATFORMS of parsers/libretro.py or not (decided for the sources
\* that libretro parses; a platform whose rows hold a licence is one).
MakeLoadWeb ==
    /\ mpc = "load"
    /\ \E s \in SCRAPERS : \E urls \in Webs(s) : \E ps \in ChainParsers :
       \E n \in Copies(urls) : \E df \in DirectOutcomes : \E known \in BOOLEAN :
        LET source == [scraper |-> s, parsers |-> ps] IN
            /\ df # "ok" => MakesDirectFetch(source, urls, known)
            /\ ~known => UsesLibretro(source) /\ ~HasLicence(urls)
            /\ libretro_platforms' = IF known THEN {1} ELSE {}
            /\ sources' = <<[i \in 1..n |-> source]>>
            /\ web' = <<[i \in 1..n |-> urls]>>
            /\ direct_fetch' = df
    /\ mpc' = "start_writer"
    /\ UNCHANGED <<exc, plat, idx, ppc, nyield, entry_p, entry_queue, unfinished,
                   stop_event, enqueued, written, lock, wpc, entry_w, wexc, mon, enq,
                   wr, last_enqueued, last_written, putLog, dbLog, stopCount, yieldLog,
                   stats_line, db_line, ncalls, chain, scrapeLog, applied, report>>

\* The entry made from row k of the listing of URL number u of the source
\* at position src: numbered in the order of the URLs and of the rows.
EntryOf(src, u, k) == <<src[1], src[2], (u - 1) * MaxRows + k>>

\* What a request for the next entry of a generator gives: an entry, the
\* end of the generator (StopIteration) or an exception; m is the state of
\* the generators and of the histories after the request.
Yielded(e, m) == [res |-> "entry", entry |-> e, m |-> m, exc |-> "none"]

Stopped(m) == [res |-> "stop", entry |-> NoEntry, m |-> m, exc |-> "none"]

Raise(e, m) == [res |-> "raise", entry |-> NoEntry, m |-> m, exc |-> e]

\* An exception of a request or of the parsing of its answer.
Raised(m) == Raise("Exception", m)

\* The entry e has been processed by the parser named.
Mark(ap, e, name) ==
    [x \in DOMAIN ap \cup {e} |->
        IF x = e THEN Append(IF e \in DOMAIN ap THEN ap[e] ELSE <<>>, name)
        ELSE ap[x]]

\* The scraper has produced the entry e.
Produced(m, e) ==
    [m EXCEPT !.log = Append(m.log, e),
              !.ap = [x \in DOMAIN m.ap \cup {e} |->
                        IF x = e THEN <<>> ELSE m.ap[x]]]

\* What nopaystation.parse_response makes of a row, and what the scrapers
\* with direct links make of theirs.  parse_links requests an ".xml" link
\* with requests.get outside any try, so the request raising ends the
\* generator with the exception; when r.ok it parses the body with
\* ET.fromstring, which raises on a body that is no XML document, and
\* makes one link per <pieces>; after the request, whatever its status,
\* it adds the licence link of the platform.  parse_response yields the
\* entry when it has a link and drops it otherwise.
RowResult(kind) ==
    IF kind = "direct" THEN "entry"
    ELSE IF direct_fetch = "raise" THEN "raise"
    ELSE IF kind = "xml_licensed" THEN "entry"
    ELSE IF kind = "xml" THEN (IF direct_fetch = "ok" THEN "entry" ELSE "none")
    ELSE IF kind = "xml_empty" THEN "none"
    ELSE IF direct_fetch = "ok" THEN "raise" ELSE "none"

\* The generator of myrient.scrape, mariocube.scrape and
\* nopaystation.scrape: "for url in source['urls']", a URL whose fetch
\* gives no response is skipped ("continue"), the entries of a response
\* are yielded in order.
RECURSIVE scrape(_)
scrape(m) ==
    LET urls == web[plat][idx]
        c == m.c
        nextUrl == [m EXCEPT !.c.u = c.u + 1, !.c.k = 0]
        nextRow == [m EXCEPT !.c.k = c.k + 1]
        e == EntryOf(<<plat, idx>>, c.u, c.k + 1)
    IN  IF c.u > Len(urls) THEN Stopped(m)
        ELSE IF ~urls[c.u].ok THEN scrape(nextUrl)
        ELSE IF c.k >= Len(urls[c.u].rows) THEN scrape(nextUrl)
        ELSE IF RowResult(urls[c.u].rows[c.k + 1]) = "raise" THEN Raised(nextRow)
        ELSE IF RowResult(urls[c.u].rows[c.k + 1]) = "none" THEN scrape(nextRow)
        ELSE Yielded(e, Produced(nextRow, e))

\* The entries internet_archive.scrape makes of the files of item number
\* it, from the directory of rank r on: "for file_obj in metadata['files']"
\* in the order of the metadata, the files outside the directories named
\* by the URLs passed over.
RECURSIVE ia_files(_, _, _, _)
ia_files(src, urls, it, r) ==
    LET us == {u \in 1..Len(urls) : urls[u].item = it /\ urls[u].rank = r} IN
        IF us = {} THEN <<>>
        ELSE LET u == CHOOSE v \in us : TRUE IN
             [k \in 1..Len(urls[u].rows) |-> EntryOf(src, u, k)]
             \o ia_files(src, urls, it, r + 1)

\* The list internet_archive.scrape builds for the source at src, from
\* item number it on: the URLs are grouped by item (prefixes_by_id), the
\* metadata of each item is fetched once, in the order of the first URL of
\* the items; an item whose fetch gives no response is skipped; a response
\* that is no JSON text makes json.loads raise out of scrape.
RECURSIVE ia_list(_, _, _)
ia_list(src, urls, it) ==
    LET us == {u \in 1..Len(urls) : urls[u].item = it} IN
        IF us = {} THEN [res |-> "list", list |-> <<>>]
        ELSE LET u == CHOOSE v \in us : TRUE
                 rest == ia_list(src, urls, it + 1)
             IN  IF ~urls[u].ok THEN rest
                 ELSE IF ~urls[u].json THEN [res |-> "raise", list |-> <<>>]
                 ELSE IF rest.res = "raise" THEN rest
                 ELSE [res |-> "list",
                       list |-> ia_files(src, urls, it, 1) \o rest.list]

RECURSIVE ProducedAll(_, _)
ProducedAll(m, list) ==
    IF list = <<>> THEN m ELSE ProducedAll(Produced(m, Head(list)), Tail(list))

\* The call scraper.scrape(source, platform, use_cached) for the source at
\* src.  internet_archive.scrape is no generator: the call fetches the
\* metadata and returns the whole list, or raises.  The scrape of the
\* other scrapers is a generator function: the call runs none of its body.
internet_archive_scrape(src, m) ==
    LET built == ia_list(src, web[src[1]][src[2]], 1) IN
        IF built.res = "raise" THEN [exc |-> "Exception", m |-> m]
        ELSE [exc |-> "none",
              m |-> [ProducedAll(m, built.list) EXCEPT
                        !.c.scraped = TRUE, !.c.ia_entries = built.list]]

\* "for entry in entries" over the list of internet_archive.scrape.
ia_next(m) ==
    IF m.c.ia_entries = <<>> THEN Stopped(m)
    ELSE Yielded(Head(m.c.ia_entries),
                 [m EXCEPT !.c.ia_entries = Tail(m.c.ia_entries)])

\* The generator of a parser that streams: "for entry in entries: ...;
\* yield entry", one request upstream per entry yielded.  mame.parse,
\* wii_rom_set_by_ghostware.parse and gametdb.parse are of this shape:
\* every branch of the loop of gametdb.parse ends in one "yield entry",
\* and its requests (fetch_boxart_url) catch requests.RequestException.
Streaming(name, up) ==
    IF up.res = "entry"
    THEN Yielded(up.entry, [up.m EXCEPT !.ap = Mark(up.m.ap, up.entry, name)])
    ELSE up

mame_parse(up) == Streaming("mame", up)

wii_rom_set_by_ghostware_parse(up) == Streaming("wii_rom_set_by_ghostware", up)

gametdb_parse(up) == Streaming("gametdb", up)

\* The generator of libretro.parse: it streams.  It takes the entry from
\* upstream and builds index_url from PLATFORMS[entry['platform']], which
\* raises KeyError for a platform that is no key of PLATFORMS.  For the
\* first entry of a platform it sets 'available_boxarts' and requests the
\* boxart index with requests.get outside any try, so the request raising
\* ends the generator with the exception.  An error status gives an index
\* without boxarts.
libretro_parse(up) ==
    IF up.res # "entry" THEN up
    ELSE IF up.entry[1] \notin libretro_platforms THEN Raise("KeyError", up.m)
    ELSE IF up.entry[1] \in up.m.c.boxarts THEN Streaming("libretro", up)
    ELSE IF direct_fetch = "raise"
    THEN Raised([up.m EXCEPT !.c.boxarts = @ \cup {up.entry[1]}])
    ELSE Streaming("libretro",
                   [up EXCEPT !.m.c.boxarts = @ \cup {up.entry[1]}])

\* The loop of no_intro.parse over its list: "for entry in entries:
\* process_entry(...); yield entry".
no_intro_next(m) ==
    IF m.c.entries = <<>> THEN Stopped(m)
    ELSE Yielded(Head(m.c.entries),
                 [m EXCEPT !.c.entries = Tail(@),
                           !.ap = Mark(m.ap, Head(m.c.entries), "no_intro")])

\* The generator chain below parser number i of the current source, asked
\* for its next entry; number 0 is the scraper.  no_intro.parse is the one
\* parser that does not stream: at its first request "entries =
\* list(entries)" asks upstream until it stops, and an exception upstream
\* ends no_intro.parse with it.
RECURSIVE request(_, _)
RECURSIVE listAll(_, _, _)
\* Mutant of listAll: no_intro.parse takes one entry from upstream and
\* goes on with it, in place of "entries = list(entries)".
listAll_First(i, m, acc) ==
    LET up == request(i, m) IN
        [res |-> IF up.res = "raise" THEN "raise" ELSE "stop",
         exc |-> up.exc,
         list |-> IF up.res = "entry" THEN <<up.entry>> ELSE <<>>,
         m |-> up.m]

listAll(i, m, acc) ==
    LET up == request(i, m) IN
        IF up.res = "entry" THEN listAll(i, up.m, Append(acc, up.entry))
        ELSE [res |-> up.res, exc |-> up.exc, list |-> acc, m |-> up.m]

request(i, m) ==
    LET source == sources[plat][idx]
        name == source.parsers[i]
    IN  IF i = 0
        THEN IF source.scraper = "internet_archive"
             THEN ia_next(m)
             ELSE scrape(m)
        ELSE IF name = "no_intro"
        THEN IF m.c.listed THEN no_intro_next(m)
             ELSE LET all == listAll(i - 1, m, <<>>) IN
                  IF all.res = "raise" THEN Raise(all.exc, all.m)
                  ELSE no_intro_next([all.m EXCEPT !.c.listed = TRUE,
                                                   !.c.entries = all.list])
        ELSE IF name = "libretro" THEN libretro_parse(request(i - 1, m))
        ELSE IF name = "gametdb" THEN gametdb_parse(request(i - 1, m))
        ELSE IF name = "mame" THEN mame_parse(request(i - 1, m))
        ELSE wii_rom_set_by_ghostware_parse(request(i - 1, m))

(***************************************************************************)
(* process_sources: the Producer loop, run by the calling thread.          *)
(***************************************************************************)
\* The first position at or after (p, i) of the nested loops over
\* sources.items() and source_list that names a source descriptor;
\* <<Len(sources) + 1, 1>> when the loops are exhausted.
RECURSIVE Locate(_, _, _)
Locate(srcs, p, i) ==
    IF p > Len(srcs) THEN <<Len(srcs) + 1, 1>>
    ELSE IF i > Len(srcs[p]) THEN Locate(srcs, p + 1, 1)
    ELSE <<p, i>>

\* The position in the chain of the first parser name that is not
\* registered, as the loop over source['parsers'] meets it; 0 when every
\* name resolves.
RECURSIVE FirstUnknownParser(_)
FirstUnknownParser(names) ==
    IF names = <<>> THEN 0
    ELSE IF get_parser(Head(names)) = "None" THEN 1
    ELSE IF FirstUnknownParser(Tail(names)) = 0 THEN 0
    ELSE 1 + FirstUnknownParser(Tail(names))

\* Every name of a source descriptor is registered: get_scraper gives a
\* scraper for its scraper name and get_parser a parser for each of its
\* parser names.  The empty name is not registered.
Registered(source) ==
    /\ get_scraper(source.scraper) # "None"
    /\ FirstUnknownParser(source.parsers) = 0

\* The generators and the histories as the body of the loop finds them
\* for a new source: no generator of the source made yet.
NewGenerators ==
    [c |-> [NewChain EXCEPT !.boxarts = chain.boxarts],
     log |-> scrapeLog, ap |-> applied]

\* The body of the loop for the source at src, up to "for entry in
\* entries": the scraper name is resolved (RuntimeError when unknown),
\* scraper.scrape is called, which for internet_archive fetches and builds
\* the list or raises, and then the parser names are resolved in order
\* (RuntimeError at the first unknown one), each parse function called
\* being a generator function that runs nothing yet.
OpenSource(src, m) ==
    LET source == sources[src[1]][src[2]] IN
        IF get_scraper(source.scraper) = "None"
        THEN [exc |-> "RuntimeError", m |-> m]
        ELSE LET called == IF source.scraper = "internet_archive"
                           THEN internet_archive_scrape(src, m)
                           ELSE [exc |-> "none", m |-> m]
             IN  IF called.exc # "none" THEN called
                 ELSE IF FirstUnknownParser(source.parsers) # 0
                 THEN [exc |-> "RuntimeError", m |-> called.m]
                 ELSE called

\* Mutant of LeaveProcess: no try/finally in make, an exception of
\* process_sources leaves make at once.
LeaveProcess_NoFinally(e) ==
    /\ exc' = e
    /\ mpc' = IF e = "none" THEN "q_join" ELSE "raised"
    /\ ppc' = "left"

\* process_sources leaves (returns or raises): the finally block of make
\* is entered with the exception pending.
LeaveProcess(e) ==
    /\ exc' = e
    /\ mpc' = "q_join"
    /\ ppc' = "left"

\* Mutant of ProducerOpen: the names of every source are resolved when the
\* loop is first entered, before any entry is requested.
ProducerOpen_ResolveAll ==
    /\ mpc = "process"
    /\ ppc = "open"
    /\ LET pos == Locate(sources, plat, idx) IN
        /\ plat' = pos[1]
        /\ idx' = pos[2]
        /\ nyield' = 0
        /\ LET o == IF pos[1] > Len(sources)
                    THEN [exc |-> "none", m |-> NewGenerators]
                    ELSE IF \E p \in 1..Len(sources) : \E i \in 1..Len(sources[p]) :
                                ~Registered(sources[p][i])
                    THEN [exc |-> "RuntimeError", m |-> NewGenerators]
                    ELSE OpenSource(pos, NewGenerators)
           IN  /\ chain' = o.m.c
               /\ scrapeLog' = o.m.log
               /\ applied' = o.m.ap
               /\ IF pos[1] > Len(sources) \/ o.exc # "none"
                  THEN LeaveProcess(o.exc)
                  ELSE /\ ppc' = "next"
                       /\ UNCHANGED <<exc, mpc>>
    /\ UNCHANGED <<sources, entry_p, entry_queue, unfinished, stop_event,
                   enqueued, written, lock, wpc, entry_w, wexc, mon, enq, wr,
                   last_enqueued, last_written, putLog, dbLog, stopCount, yieldLog,
                   stats_line, db_line, ncalls,
                   web, direct_fetch, report,
                   libretro_platforms>>

\* The head of the loops and the body up to "for entry in entries".
ProducerOpen ==
    /\ mpc = "process"
    /\ ppc = "open"
    /\ LET pos == Locate(sources, plat, idx) IN
        /\ plat' = pos[1]
        /\ idx' = pos[2]
        /\ nyield' = 0
        /\ LET o == IF pos[1] > Len(sources)
                    THEN [exc |-> "none", m |-> NewGenerators]
                    ELSE OpenSource(pos, NewGenerators)
           IN  /\ chain' = o.m.c
               /\ scrapeLog' = o.m.log
               /\ applied' = o.m.ap
               /\ IF pos[1] > Len(sources) \/ o.exc # "none"
                  THEN LeaveProcess(o.exc)
                  ELSE /\ ppc' = "next"
                       /\ UNCHANGED <<exc, mpc>>
    /\ UNCHANGED <<sources, entry_p, entry_queue, unfinished, stop_event,
                   enqueued, written, lock, wpc, entry_w, wexc, mon, enq, wr,
                   last_enqueued, last_written, putLog, dbLog, stopCount, yieldLog,
                   stats_line, db_line, ncalls,
                   web, direct_fetch, report,
                   libretro_platforms>>

\* Mutant of ProducerYield: the entry is counted as enqueued when the chain
\* yields it, before put() is called.
ProducerYield_Counted ==
    /\ mpc = "process"
    /\ ppc = "next"
    /\ Len(putLog) < MaxRecords
    /\ lock = "free"
    /\ enqueued' = enqueued + 1
    /\ nyield' = nyield + 1
    /\ entry_p' = <<plat, idx, nyield + 1>>
    /\ yieldLog' = Append(yieldLog, <<plat, idx, nyield + 1>>)
    /\ ppc' = "put"
    /\ UNCHANGED <<mpc, sources, exc, plat, idx, entry_queue, unfinished,
                   stop_event, written, lock, wpc, entry_w, wexc, mon, enq,
                   wr, last_enqueued, last_written, putLog, dbLog, stopCount,
                   stats_line, db_line, ncalls,
                   web, direct_fetch, chain, scrapeLog, applied, report,
                   libretro_platforms>>

\* "for entry in entries": the chain yields its next entry.
ProducerYield ==
    /\ mpc = "process"
    /\ ppc = "next"
    /\ Len(putLog) < MaxRecords
    /\ nyield' = nyield + 1
    /\ entry_p' = <<plat, idx, nyield + 1>>
    /\ yieldLog' = Append(yieldLog, <<plat, idx, nyield + 1>>)
    /\ ppc' = "put"
    /\ UNCHANGED <<mpc, sources, exc, plat, idx, entry_queue, unfinished,
                   stop_event, enqueued, written, lock, wpc, entry_w, wexc, mon, enq,
                   wr, last_enqueued, last_written, putLog, dbLog, stopCount,
                   stats_line, db_line, ncalls,
                   web, direct_fetch, chain, scrapeLog, applied, report,
                   libretro_platforms>>

\* "for entry in entries": the chain is exhausted; on to the next source.
ProducerExhausted ==
    /\ mpc = "process"
    /\ ppc = "next"
    /\ idx' = idx + 1
    /\ ppc' = "open"
    /\ UNCHANGED <<mpc, sources, exc, plat, nyield, entry_p, entry_queue,
                   unfinished, stop_event, enqueued, written, lock, wpc, entry_w,
                   wexc, mon, enq, wr, last_enqueued, last_written, putLog, dbLog,
                   stopCount, yieldLog,
                   stats_line, db_line, ncalls,
                   web, direct_fetch, chain, scrapeLog, applied, report,
                   libretro_platforms>>

\* "for entry in entries": a scraper or parser of the chain raises (a
\* scraper that is not a generator, as internet_archive.scrape, raises in
\* the call of scrape() instead: before the first entry, as here).
ProducerRaise ==
    /\ mpc = "process"
    /\ ppc = "next"
    /\ LeaveProcess("Exception")
    /\ UNCHANGED <<sources, plat, idx, nyield, entry_p, entry_queue, unfinished,
                   stop_event, enqueued, written, lock, wpc, entry_w, wexc, mon, enq,
                   wr, last_enqueued, last_written, putLog, dbLog, stopCount, yieldLog,
                   stats_line, db_line, ncalls,
                   web, direct_fetch, chain, scrapeLog, applied, report,
                   libretro_platforms>>

\* entry_queue.put(entry)
ProducerPut ==
    /\ mpc = "process"
    /\ ppc = "put"
    /\ ~PutBlocked
    /\ Put(entry_p)
    /\ putLog' = Append(putLog, entry_p)
    /\ ppc' = "inc"
    /\ UNCHANGED <<mpc, sources, exc, plat, idx, nyield, entry_p, stop_event,
                   enqueued, written, lock, wpc, entry_w, wexc, mon, enq, wr,
                   last_enqueued, last_written, dbLog, stopCount, yieldLog,
                   stats_line, db_line, ncalls,
                   web, direct_fetch, chain, scrapeLog, applied, report,
                   libretro_platforms>>

\* Mutant of ProducerInc: the counter is incremented without stats.lock.
ProducerInc_NoLock ==
    /\ mpc = "process"
    /\ ppc = "inc"
    /\ enqueued' = enqueued + 1
    /\ ppc' = "next"
    /\ UNCHANGED <<mpc, sources, exc, plat, idx, nyield, entry_p, entry_queue,
                   unfinished, stop_event, written, lock, wpc, entry_w, wexc, mon, enq,
                   wr, last_enqueued, last_written, putLog, dbLog, stopCount, yieldLog,
                   stats_line, db_line, ncalls,
                   web, direct_fetch, chain, scrapeLog, applied, report,
                   libretro_platforms>>

\* with stats.lock: stats.enqueued += 1
ProducerInc ==
    /\ mpc = "process"
    /\ ppc = "inc"
    /\ lock = "free"
    /\ enqueued' = enqueued + 1
    /\ ppc' = "next"
    /\ UNCHANGED <<mpc, sources, exc, plat, idx, nyield, entry_p, entry_queue,
                   unfinished, stop_event, written, lock, wpc, entry_w, wexc, mon, enq,
                   wr, last_enqueued, last_written, putLog, dbLog, stopCount, yieldLog,
                   stats_line, db_line, ncalls,
                   web, direct_fetch, chain, scrapeLog, applied, report,
                   libretro_platforms>>

(***************************************************************************)
(* make: the finally block and what follows it.                            *)
(***************************************************************************)
\* entry_queue.join()
MakeQueueJoin ==
    /\ mpc = "q_join"
    /\ JoinReturns
    /\ mpc' = "set_stop"
    /\ UNCHANGED <<sources, exc, plat, idx, ppc, nyield, entry_p, entry_queue,
                   unfinished, stop_event, enqueued, written, lock, wpc, entry_w,
                   wexc, mon, enq, wr, last_enqueued, last_written, putLog, dbLog,
                   stopCount, yieldLog,
                   stats_line, db_line, ncalls,
                   web, direct_fetch, chain, scrapeLog, applied, report,
                   libretro_platforms>>

\* stop_event.set()
MakeSetStop ==
    /\ mpc = "set_stop"
    /\ stop_event' = TRUE
    /\ stopCount' = stopCount + 1
    /\ mpc' = "w_join"
    /\ UNCHANGED <<sources, exc, plat, idx, ppc, nyield, entry_p, entry_queue,
                   unfinished, enqueued, written, lock, wpc, entry_w, wexc, mon, enq,
                   wr, last_enqueued, last_written, putLog, dbLog, yieldLog,
                   stats_line, db_line, ncalls,
                   web, direct_fetch, chain, scrapeLog, applied, report,
                   libretro_platforms>>

\* Mutant of MakeWriterJoin: make closes the database itself after the join.
MakeWriterJoin_Close ==
    /\ mpc = "w_join"
    /\ wpc \in {"done", "dead"}
    /\ mpc' = IF exc = "none" THEN "static" ELSE "raised"
    /\ dbLog' = Append(dbLog, [op |-> "close", by |-> "make", entry |-> <<0, 0, 0>>,
                               outcome |-> "ok"])
    /\ UNCHANGED <<sources, exc, plat, idx, ppc, nyield, entry_p, entry_queue,
                   unfinished, stop_event, enqueued, written, lock, wpc, entry_w,
                   wexc, mon, enq, wr, last_enqueued, last_written, putLog,
                   stopCount, yieldLog,
                   stats_line, db_line, ncalls,
                   web, direct_fetch, chain, scrapeLog, applied, report,
                   libretro_platforms>>

\* writer_thread.join(); leaving the finally block re-raises a pending
\* exception, otherwise make goes on to the static files.
MakeWriterJoin ==
    /\ mpc = "w_join"
    /\ wpc \in {"done", "dead"}
    /\ mpc' = IF exc = "none" THEN "static" ELSE "raised"
    /\ UNCHANGED <<sources, exc, plat, idx, ppc, nyield, entry_p, entry_queue,
                   unfinished, stop_event, enqueued, written, lock, wpc, entry_w,
                   wexc, mon, enq, wr, last_enqueued, last_written, putLog, dbLog,
                   stopCount, yieldLog,
                   stats_line, db_line, ncalls,
                   web, direct_fetch, chain, scrapeLog, applied, report,
                   libretro_platforms>>

\* move_static_files(...); make returns
MakeMoveStatic ==
    /\ mpc = "static"
    /\ mpc' = "returned"
    /\ UNCHANGED <<sources, exc, plat, idx, ppc, nyield, entry_p, entry_queue,
                   unfinished, stop_event, enqueued, written, lock, wpc, entry_w,
                   wexc, mon, enq, wr, last_enqueued, last_written, putLog, dbLog,
                   stopCount, yieldLog,
                   stats_line, db_line, ncalls,
                   web, direct_fetch, chain, scrapeLog, applied, report,
                   libretro_platforms>>

(***************************************************************************)
(* db_manager: the persistence layer the Writer calls.  Each call is        *)
(* logged with the thread that made it; init_database and insert_entry     *)
(* either return or raise.                                                 *)
(***************************************************************************)
DbOutcomes == {"ok", "raise"}

init_database(by, outcome) ==
    dbLog' = Append(dbLog, [op |-> "init", by |-> by, entry |-> NoEntry,
                            outcome |-> outcome])

insert_entry(by, entry, outcome) ==
    dbLog' = Append(dbLog, [op |-> "insert", by |-> by, entry |-> entry,
                            outcome |-> outcome])

close_database(by) ==
    dbLog' = Append(dbLog, [op |-> "close", by |-> by, entry |-> NoEntry,
                            outcome |-> "ok"])

(***************************************************************************)
(* db_writer_worker: the Writer thread.                                    *)
(***************************************************************************)
\* Mutant of WriterInit: init_database is called inside the try block, so
\* its exception goes through the finally block.
WriterInit_InsideTry ==
    /\ wpc = "init"
    /\ \E outcome \in DbOutcomes :
        /\ init_database("writer", outcome)
        /\ wpc' = IF outcome = "ok" THEN "loop" ELSE "close"
        /\ wexc' = IF outcome = "ok" THEN "none" ELSE "init"
    /\ UNCHANGED <<mpc, sources, exc, plat, idx, ppc, nyield, entry_p,
                   entry_queue, unfinished, stop_event, enqueued, written, lock,
                   entry_w, mon, enq, wr, last_enqueued, last_written, putLog,
                   stopCount, yieldLog,
                   stats_line, db_line, ncalls,
                   web, direct_fetch, chain, scrapeLog, applied, report,
                   libretro_platforms>>

\* db_manager.init_database(), outside the try block: when it raises the
\* thread ends there.
WriterInit ==
    /\ wpc = "init"
    /\ \E outcome \in DbOutcomes :
        /\ init_database("writer", outcome)
        /\ wpc' = IF outcome = "ok" THEN "loop" ELSE "dead"
        /\ wexc' = IF outcome = "ok" THEN "none" ELSE "init"
    /\ UNCHANGED <<mpc, sources, exc, plat, idx, ppc, nyield, entry_p,
                   entry_queue, unfinished, stop_event, enqueued, written, lock,
                   entry_w, mon, enq, wr, last_enqueued, last_written, putLog,
                   stopCount, yieldLog,
                   stats_line, db_line, ncalls,
                   web, direct_fetch, chain, scrapeLog, applied, report,
                   libretro_platforms>>

\* Mutant of WriterLoopCond: the loop does not look at the stop event.
WriterLoopCond_Forever == TRUE

\* Mutant of WriterLoopCond: "and" in place of "or", the loop ends on an
\* empty queue although stop is not set.
WriterLoopCond_And == ~stop_event /\ ~(Len(entry_queue) = 0)

\* while not stop_event.is_set() or not entry_queue.empty()
WriterLoopCond == ~stop_event \/ ~(Len(entry_queue) = 0)

WriterLoop ==
    /\ wpc = "loop"
    /\ wpc' = IF WriterLoopCond THEN "get" ELSE "close"
    /\ db_line' = NoLine
    /\ UNCHANGED <<mpc, sources, exc, plat, idx, ppc, nyield, entry_p,
                   entry_queue, unfinished, stop_event, enqueued, written, lock,
                   entry_w, wexc, mon, enq, wr, last_enqueued, last_written,
                   putLog, dbLog, stopCount, yieldLog,
                   stats_line, ncalls,
                   web, direct_fetch, chain, scrapeLog, applied, report,
                   libretro_platforms>>

\* Mutant of WriterGet: the entry is read and left in the queue.
WriterGet_Peek ==
    /\ wpc = "get"
    /\ Len(entry_queue) > 0
    /\ entry_w' = Head(entry_queue)
    /\ wpc' = "insert"
    /\ UNCHANGED <<mpc, sources, exc, plat, idx, ppc, nyield, entry_p,
                   entry_queue, unfinished, stop_event, enqueued, written, lock,
                   wexc, mon, enq, wr, last_enqueued, last_written, putLog,
                   dbLog, stopCount, yieldLog,
                   stats_line, db_line, ncalls,
                   web, direct_fetch, chain, scrapeLog, applied, report,
                   libretro_platforms>>

\* Mutant of WriterGet: the newest entry is taken (a LifoQueue).
WriterGet_Lifo ==
    /\ wpc = "get"
    /\ Len(entry_queue) > 0
    /\ entry_w' = entry_queue[Len(entry_queue)]
    /\ entry_queue' = SubSeq(entry_queue, 1, Len(entry_queue) - 1)
    /\ wpc' = "insert"
    /\ UNCHANGED <<mpc, sources, exc, plat, idx, ppc, nyield, entry_p,
                   unfinished, stop_event, enqueued, written, lock, wexc, mon,
                   enq, wr, last_enqueued, last_written, putLog, dbLog,
                   stopCount, yieldLog,
                   stats_line, db_line, ncalls,
                   web, direct_fetch, chain, scrapeLog, applied, report,
                   libretro_platforms>>

\* Mutant of WriterGet: the entry is counted as written when it is dequeued.
WriterGet_Counted ==
    /\ wpc = "get"
    /\ Len(entry_queue) > 0
    /\ lock = "free"
    /\ entry_w' = Head(entry_queue)
    /\ entry_queue' = Tail(entry_queue)
    /\ written' = written + 1
    /\ wpc' = "insert"
    /\ UNCHANGED <<mpc, sources, exc, plat, idx, ppc, nyield, entry_p,
                   unfinished, stop_event, enqueued, lock, wexc, mon,
                   enq, wr, last_enqueued, last_written, putLog, dbLog,
                   stopCount, yieldLog,
                   stats_line, db_line, ncalls,
                   web, direct_fetch, chain, scrapeLog, applied, report,
                   libretro_platforms>>

\* entry = entry_queue.get(timeout=0.5), an item being there in time
WriterGet ==
    /\ wpc = "get"
    /\ Len(entry_queue) > 0
    /\ entry_w' = Head(entry_queue)
    /\ entry_queue' = Tail(entry_queue)
    /\ wpc' = "insert"
    /\ UNCHANGED <<mpc, sources, exc, plat, idx, ppc, nyield, entry_p,
                   unfinished, stop_event, enqueued, written, lock, wexc, mon,
                   enq, wr, last_enqueued, last_written, putLog, dbLog,
                   stopCount, yieldLog,
                   stats_line, db_line, ncalls,
                   web, direct_fetch, chain, scrapeLog, applied, report,
                   libretro_platforms>>

\* Mutant of WriterGetTimeout: queue.Empty is not caught and takes the
\* Writer out of the loop, through the finally block.
WriterGetTimeout_Fatal ==
    /\ wpc = "get"
    /\ Len(entry_queue) = 0
    /\ wpc' = "close"
    /\ wexc' = "Empty"
    /\ UNCHANGED <<mpc, sources, exc, plat, idx, ppc, nyield, entry_p,
                   entry_queue, unfinished, stop_event, enqueued, written, lock,
                   entry_w, mon, enq, wr, last_enqueued, last_written,
                   putLog, dbLog, stopCount, yieldLog,
                   stats_line, db_line, ncalls,
                   web, direct_fetch, chain, scrapeLog, applied, report,
                   libretro_platforms>>

\* except queue.Empty: continue
WriterGetTimeout ==
    /\ wpc = "get"
    /\ Len(entry_queue) = 0
    /\ wpc' = "loop"
    /\ UNCHANGED <<mpc, sources, exc, plat, idx, ppc, nyield, entry_p,
                   entry_queue, unfinished, stop_event, enqueued, written, lock,
                   entry_w, wexc, mon, enq, wr, last_enqueued, last_written,
                   putLog, dbLog, stopCount, yieldLog,
                   stats_line, db_line, ncalls,
                   web, direct_fetch, chain, scrapeLog, applied, report,
                   libretro_platforms>>

\* Mutant of AfterInsert: the exception of insert_entry is swallowed, the
\* record is acknowledged and the loop goes on.
AfterInsert_Acknowledge(outcome) == IF outcome = "ok" THEN "inc" ELSE "task_done"

\* Mutant of AfterInsert: the written counter is not incremented.
AfterInsert_SkipCount(outcome) == IF outcome = "ok" THEN "task_done" ELSE "close"

\* Mutant of AfterInsert: no try/finally, a raising insert ends the thread.
AfterInsert_NoFinally(outcome) == IF outcome = "ok" THEN "inc" ELSE "dead"

\* Where the Writer goes after db_manager.insert_entry(entry): on, or, when
\* the call raised, out of the loop into the finally block.
AfterInsert(outcome) == IF outcome = "ok" THEN "inc" ELSE "close"

\* db_manager.insert_entry(entry)
WriterInsert ==
    /\ wpc = "insert"
    /\ \E outcome \in DbOutcomes :
        /\ insert_entry("writer", entry_w, outcome)
        /\ wpc' = AfterInsert(outcome)
        /\ wexc' = IF outcome = "ok" THEN "none" ELSE "insert"
    /\ UNCHANGED <<mpc, sources, exc, plat, idx, ppc, nyield, entry_p,
                   entry_queue, unfinished, stop_event, enqueued, written, lock,
                   entry_w, mon, enq, wr, last_enqueued, last_written, putLog,
                   stopCount, yieldLog,
                   stats_line, db_line, ncalls,
                   web, direct_fetch, chain, scrapeLog, applied, report,
                   libretro_platforms>>

\* with stats.lock: stats.written += 1
WriterInc ==
    /\ wpc = "inc"
    /\ lock = "free"
    /\ written' = written + 1
    /\ wpc' = "task_done"
    /\ UNCHANGED <<mpc, sources, exc, plat, idx, ppc, nyield, entry_p,
                   entry_queue, unfinished, stop_event, enqueued, lock, entry_w,
                   wexc, mon, enq, wr, last_enqueued, last_written, putLog,
                   dbLog, stopCount, yieldLog,
                   stats_line, db_line, ncalls,
                   web, direct_fetch, chain, scrapeLog, applied, report,
                   libretro_platforms>>

\* entry_queue.task_done(); then "if now - last_report >= 2.0", which the
\* clock decides
WriterTaskDone ==
    /\ wpc = "task_done"
    /\ unfinished' = unfinished - 1
    /\ \E due \in BOOLEAN : wpc' = IF due THEN "report" ELSE "loop"
    /\ UNCHANGED <<mpc, sources, exc, plat, idx, ppc, nyield, entry_p,
                   entry_queue, stop_event, enqueued, written, lock, entry_w,
                   wexc, mon, enq, wr, last_enqueued, last_written, putLog,
                   dbLog, stopCount, yieldLog,
                   stats_line, db_line, ncalls,
                   web, direct_fetch, chain, scrapeLog, applied, report,
                   libretro_platforms>>

\* print(f"[DB] written={wr} queue={qsize} backlog={enq - wr}")
DbLine(qsize, enq_w, wr_w) ==
    [written |-> wr_w, queue |-> qsize, backlog |-> enq_w - wr_w]

\* The periodic [DB] report.  "with stats.lock:" is entered, the Writer
\* holds the lock, and "qsize = entry_queue.qsize()".
WriterReportLock ==
    /\ wpc = "report"
    /\ lock = "free"
    /\ lock' = "writer"
    /\ report' = [report EXCEPT !.qsize = Len(entry_queue)]
    /\ wpc' = "report_enq"
    /\ UNCHANGED <<mpc, sources, exc, plat, idx, ppc, nyield, entry_p,
                   entry_queue, unfinished, stop_event, enqueued, written,
                   entry_w, wexc, mon, enq, wr, last_enqueued, last_written,
                   putLog, dbLog, stopCount, yieldLog,
                   stats_line, db_line, ncalls,
                   web, direct_fetch, chain, scrapeLog, applied,
                   libretro_platforms>>

\* enq = stats.enqueued
WriterReportEnqueued ==
    /\ wpc = "report_enq"
    /\ report' = [report EXCEPT !.enq = enqueued]
    /\ wpc' = "report_wr"
    /\ UNCHANGED <<mpc, sources, exc, plat, idx, ppc, nyield, entry_p,
                   entry_queue, unfinished, stop_event, enqueued, written, lock,
                   entry_w, wexc, mon, enq, wr, last_enqueued, last_written,
                   putLog, dbLog, stopCount, yieldLog,
                   stats_line, db_line, ncalls,
                   web, direct_fetch, chain, scrapeLog, applied,
                   libretro_platforms>>

\* wr = stats.written; the lock is released
WriterReportWritten ==
    /\ wpc = "report_wr"
    /\ report' = [report EXCEPT !.wr = written]
    /\ lock' = "free"
    /\ wpc' = "report_print"
    /\ UNCHANGED <<mpc, sources, exc, plat, idx, ppc, nyield, entry_p,
                   entry_queue, unfinished, stop_event, enqueued, written,
                   entry_w, wexc, mon, enq, wr, last_enqueued, last_written,
                   putLog, dbLog, stopCount, yieldLog,
                   stats_line, db_line, ncalls,
                   web, direct_fetch, chain, scrapeLog, applied,
                   libretro_platforms>>

\* print(...) of the three locals, after the lock is released; "last_report
\* = now".  The locals are not read again before the next report assigns
\* them.
WriterReportPrint ==
    /\ wpc = "report_print"
    /\ db_line' = <<DbLine(report.qsize, report.enq, report.wr)>>
    /\ report' = NoReport
    /\ wpc' = "loop"
    /\ UNCHANGED <<mpc, sources, exc, plat, idx, ppc, nyield, entry_p,
                   entry_queue, unfinished, stop_event, enqueued, written, lock,
                   entry_w, wexc, mon, enq, wr, last_enqueued, last_written,
                   putLog, dbLog, stopCount, yieldLog,
                   stats_line, ncalls,
                   web, direct_fetch, chain, scrapeLog, applied,
                   libretro_platforms>>

\* finally: db_manager.close_database(); the thread ends, by returning or
\* with the exception of insert_entry
WriterClose ==
    /\ wpc = "close"
    /\ close_database("writer")
    /\ wpc' = IF wexc = "none" THEN "done" ELSE "dead"
    /\ UNCHANGED <<mpc, sources, exc, plat, idx, ppc, nyield, entry_p,
                   entry_queue, unfinished, stop_event, enqueued, written, lock,
                   entry_w, wexc, mon, enq, wr, last_enqueued, last_written,
                   putLog, stopCount, yieldLog,
                   stats_line, db_line, ncalls,
                   web, direct_fetch, chain, scrapeLog, applied, report,
                   libretro_platforms>>

(***************************************************************************)
(* monitor_worker: the Monitor thread.                                     *)
(***************************************************************************)
\* Mutant of MonitorCheck: the loop of the Monitor has no exit.
MonitorCheck_Forever ==
    /\ mon = "check"
    /\ mon' = "sample"
    /\ stats_line' = NoLine
    /\ UNCHANGED <<mpc, sources, exc, plat, idx, ppc, nyield, entry_p,
                   entry_queue, unfinished, stop_event, enqueued, written, lock,
                   wpc, entry_w, wexc, enq, wr, last_enqueued, last_written,
                   putLog, dbLog, stopCount, yieldLog,
                   db_line, ncalls,
                   web, direct_fetch, chain, scrapeLog, applied, report,
                   libretro_platforms>>

\* while not stop_event.is_set(): time.sleep(2)
MonitorCheck ==
    /\ mon = "check"
    /\ mon' = IF stop_event THEN "done" ELSE "sample"
    /\ stats_line' = NoLine
    /\ UNCHANGED <<mpc, sources, exc, plat, idx, ppc, nyield, entry_p,
                   entry_queue, unfinished, stop_event, enqueued, written, lock,
                   wpc, entry_w, wexc, enq, wr, last_enqueued, last_written,
                   putLog, dbLog, stopCount, yieldLog,
                   db_line, ncalls,
                   web, direct_fetch, chain, scrapeLog, applied, report,
                   libretro_platforms>>

\* with stats.lock: enq = stats.enqueued
MonitorReadEnqueued ==
    /\ mon = "sample"
    /\ lock = "free"
    /\ lock' = "monitor"
    /\ enq' = enqueued
    /\ mon' = "read_wr"
    /\ UNCHANGED <<mpc, sources, exc, plat, idx, ppc, nyield, entry_p,
                   entry_queue, unfinished, stop_event, enqueued, written, wpc,
                   entry_w, wexc, wr, last_enqueued, last_written, putLog, dbLog,
                   stopCount, yieldLog,
                   stats_line, db_line, ncalls,
                   web, direct_fetch, chain, scrapeLog, applied, report,
                   libretro_platforms>>

\* wr = stats.written; the lock is released
MonitorReadWritten ==
    /\ mon = "read_wr"
    /\ wr' = written
    /\ lock' = "free"
    /\ mon' = "decide"
    /\ UNCHANGED <<mpc, sources, exc, plat, idx, ppc, nyield, entry_p,
                   entry_queue, unfinished, stop_event, enqueued, written, wpc,
                   entry_w, wexc, enq, last_enqueued, last_written, putLog,
                   dbLog, stopCount, yieldLog,
                   stats_line, db_line, ncalls,
                   web, direct_fetch, chain, scrapeLog, applied, report,
                   libretro_platforms>>

\* Mutant of MonitorIdle: the idle test does not look at the queue.
MonitorIdle_IgnoreQueue ==
    /\ enq - last_enqueued = 0
    /\ wr - last_written = 0

\* if enqueue_rate == 0 and write_rate == 0 and entry_queue.qsize() == 0
\* (a rate is its delta over dt > 0, so it is 0 exactly when the delta is)
MonitorIdle ==
    /\ enq - last_enqueued = 0
    /\ wr - last_written = 0
    /\ Len(entry_queue) = 0

\* Mutant of MonitorDecide: an idle sample makes the Monitor stop the run.
MonitorDecide_StopWhenIdle ==
    /\ mon = "decide"
    /\ mon' = IF MonitorIdle THEN "check" ELSE "print"
    /\ stop_event' = (stop_event \/ MonitorIdle)
    /\ UNCHANGED <<mpc, sources, exc, plat, idx, ppc, nyield, entry_p,
                   entry_queue, unfinished, enqueued, written, lock,
                   wpc, entry_w, wexc, enq, wr, last_enqueued, last_written,
                   putLog, dbLog, stopCount, yieldLog,
                   stats_line, db_line, ncalls,
                   web, direct_fetch, chain, scrapeLog, applied, report,
                   libretro_platforms>>

\* The rates and the idle test; an idle sample is skipped by "continue".
MonitorDecide ==
    /\ mon = "decide"
    /\ mon' = IF MonitorIdle THEN "check" ELSE "print"
    /\ UNCHANGED <<mpc, sources, exc, plat, idx, ppc, nyield, entry_p,
                   entry_queue, unfinished, stop_event, enqueued, written, lock,
                   wpc, entry_w, wexc, enq, wr, last_enqueued, last_written,
                   putLog, dbLog, stopCount, yieldLog,
                   stats_line, db_line, ncalls,
                   web, direct_fetch, chain, scrapeLog, applied, report,
                   libretro_platforms>>

\* trend, from backlog_delta
trend(backlog_delta) ==
    IF backlog_delta > 0 THEN "growing"
    ELSE IF backlog_delta < 0 THEN "draining"
    ELSE "stable"

\* Mutant of StatsLine: the trend is classified on the backlog instead of
\* on backlog_delta.
StatsLine_TrendOfBacklog(qsize) ==
    [enq |-> enq, wr |-> wr, queue |-> qsize, backlog |-> enq - wr,
     trend |-> trend(enq - wr)]

\* The [STATS] line without its two rates, which depend on the clock:
\* enq, wr, queue, backlog and the trend label.
StatsLine(qsize) ==
    [enq |-> enq, wr |-> wr, queue |-> qsize, backlog |-> enq - wr,
     trend |-> trend((enq - last_enqueued) - (wr - last_written))]

\* Mutant of MonitorPrint: the Monitor restarts the counters after a line.
MonitorPrint_ResetCounters ==
    /\ mon = "print"
    /\ stats_line' = <<StatsLine(Len(entry_queue))>>
    /\ last_written' = 0
    /\ last_enqueued' = 0
    /\ enqueued' = 0
    /\ written' = 0
    /\ mon' = "check"
    /\ UNCHANGED <<mpc, sources, exc, plat, idx, ppc, nyield, entry_p,
                   entry_queue, unfinished, stop_event, lock, wpc, entry_w,
                   wexc, enq, wr, putLog, dbLog, stopCount, yieldLog,
                   db_line, ncalls,
                   web, direct_fetch, chain, scrapeLog, applied, report,
                   libretro_platforms>>

\* print("[STATS] ..."); last_written = wr; last_enqueued = enq
MonitorPrint ==
    /\ mon = "print"
    /\ stats_line' = <<StatsLine(Len(entry_queue))>>
    /\ last_written' = wr
    /\ last_enqueued' = enq
    /\ mon' = "check"
    /\ UNCHANGED <<mpc, sources, exc, plat, idx, ppc, nyield, entry_p,
                   entry_queue, unfinished, stop_event, enqueued, written, lock,
                   wpc, entry_w, wexc, enq, wr, putLog, dbLog, stopCount, yieldLog,
                   db_line, ncalls,
                   web, direct_fetch, chain, scrapeLog, applied, report,
                   libretro_platforms>>

(***************************************************************************)
(* Spec: make with the Producer loop and the Writer thread, over every      *)
(* configuration of Configs.  The Monitor thread is started and is still    *)
(* in its first time.sleep(2): its steps are those of SpecMonitor below.    *)
(* Of the state the Producer and the Writer read, the Monitor changes only  *)
(* stats.lock, which it releases in the step after taking it.               *)
(***************************************************************************)
Next ==
    \/ MakeLoad
    \/ MakeStartWriter
    \/ MakeStartMonitor
    \/ ProducerOpen
    \/ ProducerYield
    \/ ProducerExhausted
    \/ ProducerRaise
    \/ ProducerPut
    \/ ProducerInc
    \/ MakeQueueJoin
    \/ MakeSetStop
    \/ MakeWriterJoin
    \/ MakeMoveStatic
    \/ WriterInit
    \/ WriterLoop
    \/ WriterGet
    \/ WriterGetTimeout
    \/ WriterInsert
    \/ WriterInc
    \/ WriterTaskDone
    \/ WriterReportLock
    \/ WriterReportEnqueued
    \/ WriterReportWritten
    \/ WriterReportPrint
    \/ WriterClose

Spec == Init /\ [][Next]_vars

(***************************************************************************)
(* SpecMonitor: the three threads together, the Monitor sampling at any     *)
(* moment, over the configurations of one source whose names resolve.       *)
(***************************************************************************)
MonitorConfigs ==
    {c \in Configs : SumLen(c) = 1 /\ Registered(c[1][1])}

MakeLoadOne == MakeLoadFrom(MonitorConfigs)

NextMonitor ==
    \/ MakeLoadOne
    \/ MakeStartWriter
    \/ MakeStartMonitor
    \/ ProducerOpen
    \/ ProducerYield
    \/ ProducerExhausted
    \/ ProducerRaise
    \/ ProducerPut
    \/ ProducerInc
    \/ MakeQueueJoin
    \/ MakeSetStop
    \/ MakeWriterJoin
    \/ MakeMoveStatic
    \/ WriterInit
    \/ WriterLoop
    \/ WriterGet
    \/ WriterGetTimeout
    \/ WriterInsert
    \/ WriterInc
    \/ WriterTaskDone
    \/ WriterReportLock
    \/ WriterReportEnqueued
    \/ WriterReportWritten
    \/ WriterReportPrint
    \/ WriterClose
    \/ MonitorCheck
    \/ MonitorReadEnqueued
    \/ MonitorReadWritten
    \/ MonitorDecide
    \/ MonitorPrint

SpecMonitor == Init /\ [][NextMonitor]_vars

(***************************************************************************)
(***************************************************************************)
(* SpecMonitorFair: SpecMonitor with the Monitor thread scheduled again    *)
(* and again while it can take a step.  Nothing is assumed of the calling  *)
(* thread and of the Writer.                                               *)
(***************************************************************************)
\* The steps of the Monitor thread.
MonitorStep ==
    \/ MonitorCheck
    \/ MonitorReadEnqueued
    \/ MonitorReadWritten
    \/ MonitorDecide
    \/ MonitorPrint

\* The Writer inside "with stats.lock:" is running: it leaves the block.
WriterInLock ==
    \/ WriterReportEnqueued
    \/ WriterReportWritten

SpecMonitorFair == SpecMonitor /\ WF_vars(MonitorStep) /\ WF_vars(WriterInLock)

(* SpecFair: Spec with the scheduling of the threads.  The calling thread  *)
(* and the Writer thread are each scheduled again and again: a thread that *)
(* can take a step, and stays able to, takes one.  What a step does (a     *)
(* chain yielding, ending or raising; a persistence call returning or      *)
(* raising) remains open.                                                  *)
(***************************************************************************)
\* The steps of the thread that called make.
CallerStep ==
    \/ MakeLoad
    \/ MakeStartWriter
    \/ MakeStartMonitor
    \/ ProducerOpen
    \/ ProducerYield
    \/ ProducerExhausted
    \/ ProducerRaise
    \/ ProducerPut
    \/ ProducerInc
    \/ MakeQueueJoin
    \/ MakeSetStop
    \/ MakeWriterJoin
    \/ MakeMoveStatic

\* The steps of the Writer thread.
WriterStep ==
    \/ WriterInit
    \/ WriterLoop
    \/ WriterGet
    \/ WriterGetTimeout
    \/ WriterInsert
    \/ WriterInc
    \/ WriterTaskDone
    \/ WriterReportLock
    \/ WriterReportEnqueued
    \/ WriterReportWritten
    \/ WriterReportPrint
    \/ WriterClose

Fairness == WF_vars(CallerStep) /\ WF_vars(WriterStep)

SpecFair == Spec /\ Fairness

(***************************************************************************)
(* SpecRuns: make called more than once in one process, each call over a   *)
(* configuration of one source whose names resolve.  The module-level      *)
(* stats object is created once, at import; the queue, the stop event and  *)
(* the two threads are created by each call.                               *)
(***************************************************************************)
\* The most calls of make in one process.
MaxCalls == 2

\* make is called again after an earlier call has returned or raised: the
\* locals of the call are new, stats is the module-level object as the
\* earlier call left it.  The histories restart with the call.
MakeCallAgain ==
    /\ mpc \in {"returned", "raised"}
    /\ ncalls < MaxCalls
    /\ ncalls' = ncalls + 1
    /\ mpc' = "load"
    /\ sources' = <<>>
    /\ exc' = "none"
    /\ plat' = 1
    /\ idx' = 1
    /\ ppc' = "open"
    /\ nyield' = 0
    /\ entry_p' = NoEntry
    /\ entry_queue' = <<>>
    /\ unfinished' = 0
    /\ stop_event' = FALSE
    /\ wpc' = "unstarted"
    /\ entry_w' = NoEntry
    /\ wexc' = "none"
    /\ mon' = "unstarted"
    /\ enq' = 0
    /\ wr' = 0
    /\ last_enqueued' = 0
    /\ last_written' = 0
    /\ yieldLog' = <<>>
    /\ putLog' = <<>>
    /\ dbLog' = <<>>
    /\ stopCount' = 0
    /\ stats_line' = NoLine
    /\ db_line' = NoLine
    /\ UNCHANGED <<enqueued, written, lock,
                   web, direct_fetch, chain, scrapeLog, applied, report,
                   libretro_platforms>>

NextRuns ==
    \/ MakeLoadOne
    \/ MakeStartWriter
    \/ MakeStartMonitor
    \/ ProducerOpen
    \/ ProducerYield
    \/ ProducerExhausted
    \/ ProducerRaise
    \/ ProducerPut
    \/ ProducerInc
    \/ MakeQueueJoin
    \/ MakeSetStop
    \/ MakeWriterJoin
    \/ MakeMoveStatic
    \/ WriterInit
    \/ WriterLoop
    \/ WriterGet
    \/ WriterGetTimeout
    \/ WriterInsert
    \/ WriterInc
    \/ WriterTaskDone
    \/ WriterReportLock
    \/ WriterReportEnqueued
    \/ WriterReportWritten
    \/ WriterReportPrint
    \/ WriterClose
    \/ MakeCallAgain

SpecRuns == Init /\ [][NextRuns]_vars

(***************************************************************************)
(* Vocabulary of the properties.                                           *)
(***************************************************************************)
\* make has left its finally block: queue join, stop, writer join are done.
ShutdownDone == mpc \in {"static", "returned", "raised"}

\* No call on db_manager has raised.
NoDbFailure == \A i \in 1..Len(dbLog) : dbLog[i].outcome = "ok"

IsInsert(call) == call.op = "insert"

IsInsertOk(call) == call.op = "insert" /\ call.outcome = "ok"

RECURSIVE EntriesOf(_)
EntriesOf(calls) ==
    IF calls = <<>> THEN <<>> ELSE <<Head(calls).entry>> \o EntriesOf(Tail(calls))

\* The entries passed to insert_entry, in call order.
Inserted == EntriesOf(SelectSeq(dbLog, IsInsert))

\* The entries insert_entry has persisted, in call order.
Persisted == EntriesOf(SelectSeq(dbLog, IsInsertOk))

\* The entry the Writer has got from the queue and not yet passed on.
InHand == IF wpc = "insert" THEN <<entry_w>> ELSE <<>>

IsPrefix(a, b) == Len(a) <= Len(b) /\ SubSeq(b, 1, Len(a)) = a

NoDuplicates(seq) == \A i, j \in 1..Len(seq) : seq[i] = seq[j] => i = j

\* Every source position of the loaded configuration.
SourcePositions ==
    UNION {{<<p, i>> : i \in 1..Len(sources[p])} : p \in 1..Len(sources)}

SourceOf(entry) == <<entry[1], entry[2]>>

RECURSIVE OfSource(_, _)
OfSource(seq, src) ==
    IF seq = <<>> THEN <<>>
    ELSE IF SourceOf(Head(seq)) = src THEN <<Head(seq)>> \o OfSource(Tail(seq), src)
    ELSE OfSource(Tail(seq), src)

\* Source a comes no later than source b in the configured iteration order.
SourceLeq(a, b) == a[1] < b[1] \/ (a[1] = b[1] /\ a[2] <= b[2])

InSourceOrder(seq) ==
    \A i, j \in 1..Len(seq) : i < j => SourceLeq(SourceOf(seq[i]), SourceOf(seq[j]))

(***************************************************************************)
(* C1. Conservation: when make has finished its shutdown sequence (queue   *)
(* join, stop, writer join) and no persistence call has raised, enqueued   *)
(* and written both equal the number of records put, and the queue is      *)
(* empty.                                                                  *)
(***************************************************************************)
C1_Conservation ==
    (ShutdownDone /\ NoDbFailure) =>
        /\ enqueued = Len(putLog)
        /\ written = Len(putLog)
        /\ Len(entry_queue) = 0

\* A clean run over two sources that put MaxRecords records has returned.
C1_Witness ==
    /\ mpc = "returned"
    /\ NoDbFailure
    /\ written = MaxRecords
    /\ \E i, j \in 1..Len(putLog) : SourceOf(putLog[i]) # SourceOf(putLog[j])

(***************************************************************************)
(* C2. Exactly-once persistence: the entries passed to insert_entry,       *)
(* followed by the entry the Writer holds and by the entries still in the  *)
(* queue, are exactly the entries put, each once; and when the run has     *)
(* completed without a persistence failure every entry put has been        *)
(* inserted.                                                               *)
(***************************************************************************)
C2_ExactlyOnce ==
    /\ NoDuplicates(putLog)
    /\ Inserted \o InHand \o entry_queue = putLog
    /\ (ShutdownDone /\ NoDbFailure) => Persisted = putLog

\* A completed run in which MaxRecords entries were put and inserted.
C2_Witness ==
    /\ ShutdownDone
    /\ NoDbFailure
    /\ Len(Inserted) = MaxRecords

(***************************************************************************)
(* C3. Per-source order preservation: for every source the entries passed  *)
(* to insert_entry are, in order, an initial part of the entries its chain *)
(* yielded, and all of them once the run has completed without a           *)
(* persistence failure.                                                    *)
(***************************************************************************)
C3_PerSourceOrder ==
    \A src \in SourcePositions :
        /\ IsPrefix(OfSource(Inserted, src), OfSource(yieldLog, src))
        /\ (ShutdownDone /\ NoDbFailure) =>
               OfSource(Inserted, src) = OfSource(yieldLog, src)

\* A completed run in which one source had two or more entries inserted.
C3_Witness ==
    /\ mpc = "returned"
    /\ \E src \in SourcePositions : Len(OfSource(Inserted, src)) >= 2

(***************************************************************************)
(* C4. Cross-source ordering: in the put sequence, in the queue and in the *)
(* insert sequence the entries of an earlier source all come before the    *)
(* entries of a later source.                                              *)
(***************************************************************************)
C4_CrossSourceOrder ==
    /\ InSourceOrder(putLog)
    /\ InSourceOrder(entry_queue)
    /\ InSourceOrder(Inserted)

\* Entries of two sources of one platform and of two platforms are inserted.
C4_Witness ==
    /\ Len(Inserted) >= 2
    /\ SourceOf(Inserted[1]) # SourceOf(Inserted[Len(Inserted)])
    /\ Len(entry_queue) > 0

(***************************************************************************)
(* C5. Backpressure.  The claim as stated: whenever the Producer is        *)
(* blocked in put(), exactly maxsize records are accepted and not yet      *)
(* processed (acknowledged).                                               *)
(***************************************************************************)
ProducerBlocked == mpc = "process" /\ ppc = "put" /\ PutBlocked

\* The entry the chain has yielded and put() has not yet accepted.
Pending == IF mpc = "process" /\ ppc = "put" THEN <<entry_p>> ELSE <<>>

C5_Original == ProducerBlocked => unfinished = maxsize

(***************************************************************************)
(* C5, amended.  The queue never holds more than maxsize entries; whenever *)
(* the Producer is blocked in put() the queue holds exactly maxsize        *)
(* entries, and the entries accepted and not yet acknowledged are maxsize, *)
(* or maxsize + 1 when the Writer holds an entry it has dequeued; every    *)
(* entry yielded is put or is the one put() is waiting with: none is       *)
(* dropped or rejected.                                                    *)
(***************************************************************************)
C5_Backpressure ==
    /\ Len(entry_queue) <= maxsize
    /\ ProducerBlocked =>
           /\ Len(entry_queue) = maxsize
           /\ unfinished \in {maxsize, maxsize + 1}
           /\ exc = "none"
    /\ yieldLog = putLog \o Pending

\* The Producer is blocked while the Writer holds a dequeued entry.
C5_Witness ==
    /\ ProducerBlocked
    /\ unfinished = maxsize + 1
    /\ wpc = "insert"

(***************************************************************************)
(* C6. Fail-fast configuration: when some source descriptor of the loaded  *)
(* configuration names an unregistered scraper or parser, the Writer and   *)
(* the Monitor are never started, nothing is put, both counters stay 0 and *)
(* no persistence operation is performed.                                  *)
(***************************************************************************)
HasUnknownName(config) ==
    \E p \in 1..Len(config) : \E i \in 1..Len(config[p]) :
        ~Registered(config[p][i])

C6_FailFast ==
    (mpc # "load" /\ HasUnknownName(sources)) =>
        /\ wpc = "unstarted"
        /\ mon = "unstarted"
        /\ putLog = <<>>
        /\ enqueued = 0
        /\ written = 0
        /\ dbLog = <<>>

(***************************************************************************)
(* C7. Guaranteed cleanup: close_database is never called twice; once      *)
(* insert_entry has raised, the Writer goes through close_database and     *)
(* has called it exactly once, itself, when its thread has ended; and no   *)
(* insert_entry call follows a close_database call.                        *)
(***************************************************************************)
IsClose(call) == call.op = "close"

CloseCount == Len(SelectSeq(dbLog, IsClose))

InsertRaised ==
    \E i \in 1..Len(dbLog) : dbLog[i].op = "insert" /\ dbLog[i].outcome = "raise"

C7_GuaranteedCleanup ==
    /\ CloseCount <= 1
    /\ InsertRaised => wpc \in {"close", "dead"}
    /\ (InsertRaised /\ wpc = "dead") =>
           /\ CloseCount = 1
           /\ dbLog[Len(dbLog)].op = "close"
           /\ dbLog[Len(dbLog)].by = "writer"
    /\ \A i, j \in 1..Len(dbLog) :
           (i < j /\ dbLog[i].op = "close") => dbLog[j].op # "insert"

\* insert_entry raised on the second record and the Writer thread has ended.
C7_Witness ==
    /\ InsertRaised
    /\ wpc = "dead"
    /\ Len(Inserted) = 2
    /\ CloseCount = 1

(***************************************************************************)
(* C8. Persistence call protocol.  The claim as stated: the calls form      *)
(* init, insert*, close, all made by the Writer, and when the Writer       *)
(* thread has ended close_database has been called exactly once.           *)
(***************************************************************************)
ProtocolOrder ==
    /\ \A i \in 1..Len(dbLog) :
           /\ dbLog[i].by = "writer"
           /\ (dbLog[i].op = "init") <=> (i = 1)
           /\ (dbLog[i].op = "close") => (i = Len(dbLog))
    /\ wpc \notin {"unstarted", "init"} => Len(dbLog) >= 1

InitOk == Len(dbLog) >= 1 /\ dbLog[1].op = "init" /\ dbLog[1].outcome = "ok"

C8_Original ==
    /\ ProtocolOrder
    /\ wpc \in {"done", "dead"} => CloseCount = 1

(***************************************************************************)
(* C8, amended.  The calls form init, insert*, close, all made by the       *)
(* Writer: init_database once and first; when the Writer thread has ended  *)
(* close_database has been called exactly once and last if init_database   *)
(* returned, and nothing was called after init_database if it raised.      *)
(***************************************************************************)
C8_Protocol ==
    /\ ProtocolOrder
    /\ (wpc \in {"done", "dead"} /\ InitOk) =>
           (CloseCount = 1 /\ dbLog[Len(dbLog)].op = "close")
    /\ (Len(dbLog) >= 1 /\ ~InitOk) => (Len(dbLog) = 1 /\ wpc = "dead")

\* A run of all three threads: init, two inserts, close, the Monitor ended.
C8_Witness ==
    /\ wpc = "done"
    /\ mon = "done"
    /\ Len(Inserted) >= 2
    /\ CloseCount = 1

(***************************************************************************)
(* C9. Shutdown ordering: stop_event is set at most once, only after       *)
(* process_sources has been left (by return or by exception) and           *)
(* entry_queue.join() has returned, so never while an accepted record is   *)
(* unacknowledged; and make leaves the finally block only with stop set    *)
(* and the Writer thread ended.                                            *)
(***************************************************************************)
C9_ShutdownOrder ==
    /\ stopCount <= 1
    /\ stop_event <=> (stopCount = 1)
    /\ mpc = "set_stop" => (ppc = "left" /\ unfinished = 0 /\ ~stop_event)
    /\ stop_event =>
           /\ ppc = "left"
           /\ unfinished = 0
           /\ mpc \in {"w_join", "static", "returned", "raised"}
    /\ ShutdownDone => (stop_event /\ wpc \in {"done", "dead"})

\* The Producer loop raised after records were put; shutdown has completed.
C9_Witness ==
    /\ mpc = "raised"
    /\ stopCount = 1
    /\ Len(putLog) >= 2

(***************************************************************************)
(* C10. Producer-loop failure: when make re-raises the exception of        *)
(* process_sources, every record put has been persisted, the queue is      *)
(* drained, stop is set, the Writer thread has ended and no database       *)
(* connection is open (close_database has been called if init_database     *)
(* returned); and after such an exception the static files are never       *)
(* moved and make never returns normally.                                  *)
(***************************************************************************)
\* A connection is open: init_database has returned, close_database is not
\* yet called.
DbOpen == InitOk /\ CloseCount = 0

C10_ProducerFailure ==
    /\ mpc = "raised" =>
           /\ exc # "none"
           /\ Persisted = putLog
           /\ Len(entry_queue) = 0
           /\ unfinished = 0
           /\ stop_event
           /\ wpc \in {"done", "dead"}
           /\ ~DbOpen
    /\ exc # "none" => mpc \notin {"static", "returned"}

\* A chain raised after two records were put; make has re-raised.
C10_Witness ==
    /\ mpc = "raised"
    /\ exc = "Exception"
    /\ Len(Persisted) >= 2
    /\ CloseCount = 1

(***************************************************************************)
(* C11. Writer failure surfaces to the caller: once insert_entry has       *)
(* raised on the k-th record written is k-1, close_database is called once *)
(* by the time the Writer thread has ended, and the run then terminates:   *)
(* make raises to its caller.                                              *)
(***************************************************************************)
C11_WriterFailureSurfaces ==
    /\ [](InsertRaised => written = Len(Inserted) - 1)
    /\ []((InsertRaised /\ wpc = "dead") => CloseCount = 1)
    /\ (InsertRaised ~> (mpc = "raised"))

(***************************************************************************)
(* C12. Unbounded stall on Writer death: once the Writer thread has ended  *)
(* with an exception it stays ended and nothing is taken from the queue or *)
(* acknowledged any more; a Producer waiting in put() on a full queue then *)
(* waits in every later state; after the Writer's death the Producer       *)
(* either leaves its loop or comes to wait so; and when a record was put,  *)
(* make never gets past entry_queue.join(): it neither raises nor returns. *)
(***************************************************************************)
StalledInPut ==
    /\ mpc = "process"
    /\ ppc = "put"
    /\ Len(entry_queue) >= maxsize
    /\ wpc = "dead"

C12_StallOnWriterDeath ==
    /\ [][wpc = "dead" =>
            /\ wpc' = "dead"
            /\ IsPrefix(entry_queue, entry_queue')
            /\ unfinished' >= unfinished]_vars
    /\ [][StalledInPut => StalledInPut']_vars
    /\ []((wpc = "dead" /\ putLog # <<>>) => mpc \in {"process", "q_join"})
    /\ ((wpc = "dead") ~> (StalledInPut \/ ppc = "left"))

\* insert_entry raised on the first record; the Producer waits on a full queue.
C12_Witness ==
    /\ StalledInPut
    /\ InsertRaised
    /\ unfinished = maxsize + 1

(***************************************************************************)
(* C13. Termination of a clean run: with the calling thread and the Writer *)
(* scheduled fairly, a run in which no scraper, parser or persistence call *)
(* raises and no name is unknown comes to the state where the queue is     *)
(* drained, stop is set, the Writer has left its loop and ended, and make  *)
(* has returned normally; and on the way every put() waiting on a full     *)
(* queue returns.                                                          *)
(***************************************************************************)
\* Nothing has raised so far.
Clean == exc = "none" /\ NoDbFailure

CleanlyReturned ==
    /\ mpc = "returned"
    /\ Len(entry_queue) = 0
    /\ unfinished = 0
    /\ stop_event
    /\ wpc = "done"
    /\ written = Len(putLog)

C13_CleanTermination ==
    /\ <>(~Clean \/ CleanlyReturned)
    /\ (ProducerBlocked ~> (~Clean \/ ~ProducerBlocked))

\* A clean run of MaxRecords records, more than the queue holds, has returned.
C13_Witness ==
    /\ Clean
    /\ CleanlyReturned
    /\ Len(putLog) = MaxRecords
    /\ MaxRecords > maxsize

(***************************************************************************)
(* C14. Backlog bound: in every state enqueued - written is at most        *)
(* maxsize plus the number of records the Writer has dequeued and not yet  *)
(* acknowledged, which is 0 or 1: the backlog is at most maxsize + 1.      *)
(***************************************************************************)
\* Records got from the queue for which task_done has not been called.
DequeuedUnacknowledged == unfinished - Len(entry_queue)

C14_BacklogBound ==
    /\ enqueued - written <= maxsize + DequeuedUnacknowledged
    /\ DequeuedUnacknowledged \in {0, 1}
    /\ enqueued - written <= maxsize + 1

\* The bound is met: the queue is full, one record is in the Writer's hands.
C14_Witness ==
    /\ enqueued - written = maxsize + 1
    /\ Len(entry_queue) = maxsize
    /\ DequeuedUnacknowledged = 1

(***************************************************************************)
(* C15. Backlog meaning: in every state enqueued - written equals the      *)
(* number of records accepted by the queue and not yet persisted; written  *)
(* never exceeds enqueued, and no [STATS] or [DB] line reports a negative  *)
(* backlog.                                                                *)
(***************************************************************************)
C15_BacklogMeaning ==
    /\ enqueued - written = Len(putLog) - Len(Persisted)
    /\ written <= enqueued
    /\ \A i \in 1..Len(stats_line) : stats_line[i].backlog >= 0
    /\ \A i \in 1..Len(db_line) : db_line[i].backlog >= 0

(***************************************************************************)
(* C16. Enqueued counts accepted records only: in every state enqueued is  *)
(* at most the number of records put() has accepted and lags it by at most *)
(* one, namely by one exactly between the return of put() and the          *)
(* increment that follows it.                                              *)
(***************************************************************************)
C16_EnqueuedAfterPut ==
    /\ enqueued <= Len(putLog)
    /\ Len(putLog) <= enqueued + 1
    /\ (Len(putLog) = enqueued + 1) <=> (ppc = "inc")

\* The third record is accepted and not yet counted.
C16_Witness ==
    /\ ppc = "inc"
    /\ Len(putLog) = 3
    /\ enqueued = 2

(***************************************************************************)
(* C17. Counter monotonicity: every step of every thread leaves enqueued   *)
(* and written each unchanged or one higher; enqueued changes only in the  *)
(* Producer's increment step and written only in the Writer's, and no step *)
(* changes both.                                                           *)
(***************************************************************************)
C17_CounterMonotonic ==
    [][/\ enqueued' \in {enqueued, enqueued + 1}
       /\ written' \in {written, written + 1}
       /\ enqueued' # enqueued =>
              /\ mpc = "process" /\ ppc = "inc" /\ ppc' = "next"
              /\ wpc' = wpc /\ mon' = mon /\ written' = written
       /\ written' # written =>
              /\ wpc = "inc" /\ wpc' = "task_done"
              /\ ppc' = ppc /\ mpc' = mpc /\ mon' = mon
              /\ enqueued' = enqueued]_vars

\* Both counters have been raised more than once and the Monitor has printed.
C17_Witness ==
    /\ enqueued >= 2
    /\ written >= 2
    /\ last_enqueued >= 1
    /\ mon = "print"

(***************************************************************************)
(* C18. Consistent snapshot: the Monitor reads enq and wr inside one       *)
(* critical section of stats.lock, during which neither counter changes,   *)
(* so the pair it leaves the section with is the pair of values the two    *)
(* counters hold at that instant; and the Writer reads the pair of its     *)
(* [DB] report inside one critical section too, so the pair it leaves the  *)
(* section with is the pair the counters hold at that instant, and the     *)
(* line printed after the section is made of that pair.                    *)
(***************************************************************************)
C18_ConsistentSnapshot ==
    /\ [](mon = "read_wr" => (lock = "monitor" /\ enq = enqueued))
    /\ [][(mon = "read_wr" /\ mon' = "decide") =>
            /\ enq' = enqueued /\ wr' = written
            /\ enqueued' = enqueued /\ written' = written
            /\ lock' = "free"]_vars
    /\ [][(mon \in {"decide", "print"} /\ mon' \in {"decide", "print", "check"}) =>
            (enq' = enq /\ wr' = wr)]_vars
    /\ [](wpc \in {"report_enq", "report_wr"} <=> lock = "writer")
    /\ [](wpc = "report_wr" => report.enq = enqueued)
    /\ [][(wpc = "report_wr" /\ wpc' = "report_print") =>
            /\ report'.enq = enqueued /\ report'.wr = written
            /\ enqueued' = enqueued /\ written' = written
            /\ lock' = "free"]_vars
    /\ [][(wpc = "report_print" /\ wpc' = "loop") =>
            /\ Len(db_line') = 1
            /\ db_line'[1].written = report.wr
            /\ db_line'[1].backlog + db_line'[1].written = report.enq]_vars

\* A sample taken while the Producer waits to count an accepted record and
\* the Writer has just reported.
C18_Witness ==
    /\ mon = "decide"
    /\ enq >= 1
    /\ wr >= 1
    /\ ppc = "inc"
    /\ Len(db_line) = 1

(***************************************************************************)
(* C19. Single-writer serialization: every persistence call is made by the *)
(* Writer thread; the connections opened and not yet closed are never more *)
(* than one; insert_entry is only called with init_database returned and   *)
(* close_database not yet called; and the Writer thread is started once,   *)
(* by make, and once ended stays ended.                                    *)
(***************************************************************************)
IsInitOk(call) == call.op = "init" /\ call.outcome = "ok"

OpenConnections == Len(SelectSeq(dbLog, IsInitOk)) - CloseCount

C19_SingleWriter ==
    /\ [](\A i \in 1..Len(dbLog) : dbLog[i].by = "writer")
    /\ [](OpenConnections \in {0, 1})
    /\ [](\A i \in 1..Len(dbLog) :
             dbLog[i].op = "insert" =>
                 /\ i > 1
                 /\ IsInitOk(dbLog[1])
                 /\ \A j \in 1..(i - 1) : dbLog[j].op # "close")
    /\ [](wpc = "insert" => OpenConnections = 1)
    /\ [][wpc' # wpc =>
            /\ (wpc' = "init") <=> (wpc = "unstarted")
            /\ wpc = "unstarted" => mpc = "start_writer"
            /\ wpc \notin {"done", "dead"}]_vars

\* The Writer is about to insert its third record on the open connection.
C19_Witness ==
    /\ wpc = "insert"
    /\ Len(Inserted) = 2
    /\ OpenConnections = 1

(***************************************************************************)
(* C20. No cross-run reuse: at the start of every call of make, a second   *)
(* call in the same process included, enqueued and written are 0 and the   *)
(* queue is empty; and the totals of a call that completes without a       *)
(* persistence failure are those of its own records.                       *)
(***************************************************************************)
C20_NoCrossRunReuse ==
    /\ mpc = "load" =>
           /\ enqueued = 0
           /\ written = 0
           /\ Len(entry_queue) = 0
           /\ unfinished = 0
    /\ (ShutdownDone /\ NoDbFailure) =>
           /\ enqueued = Len(putLog)
           /\ written = Len(putLog)

(***************************************************************************)
(* C21. Idle suppression: a Monitor sample prints a [STATS] line if and    *)
(* only if it is not the case that enqueued and written are what they were *)
(* at the sample before and the queue is empty; an idle sample leaves the  *)
(* iteration without a line, every other sample with exactly one.          *)
(***************************************************************************)
C21_IdleSuppression ==
    /\ [](Len(stats_line) <= 1)
    /\ [](mon \in {"check", "sample"} => (last_enqueued = enq /\ last_written = wr))
    /\ [][(mon = "decide" /\ mon' # mon) =>
            /\ (mon' = "print") <=>
                   ~(enq = last_enqueued /\ wr = last_written /\ Len(entry_queue) = 0)
            /\ (mon' = "check") <=>
                   (enq = last_enqueued /\ wr = last_written /\ Len(entry_queue) = 0)
            /\ stats_line' = NoLine]_vars
    /\ [][(mon = "print" /\ mon' # mon) =>
            (mon' = "check" /\ Len(stats_line') = 1)]_vars
    /\ [][Len(stats_line') = 1 => (mon \in {"print", "check"})]_vars

\* A sample whose deltas are both 0 is printed because the queue is not empty.
C21_Witness ==
    /\ mon = "print"
    /\ enq = last_enqueued
    /\ wr = last_written
    /\ Len(entry_queue) > 0
    /\ last_enqueued > 0

(***************************************************************************)
(* C22. Trend classification: when a sample begins, last_enqueued and      *)
(* last_written are the values of the sample before it, printed or         *)
(* suppressed, so backlog_delta is the change of the backlog enq - wr      *)
(* since that sample; the line printed is labelled growing exactly when    *)
(* that change is positive, draining when negative, stable when zero.      *)
(***************************************************************************)
\* The change of the backlog from the remembered sample to the current one.
BacklogChange == (enq - wr) - (last_enqueued - last_written)

C22_TrendClassification ==
    /\ [][(mon = "sample" /\ mon' # mon) =>
            (last_enqueued = enq /\ last_written = wr
             /\ last_enqueued' = enq /\ last_written' = wr)]_vars
    /\ [][(mon \in {"read_wr", "decide"} /\ mon' # "check") =>
            (last_enqueued' = last_enqueued /\ last_written' = last_written)]_vars
    /\ [][(mon = "print" /\ mon' # mon) =>
            /\ Len(stats_line') = 1
            /\ stats_line'[1].backlog = enq - wr
            /\ (stats_line'[1].trend = "growing") <=> (BacklogChange > 0)
            /\ (stats_line'[1].trend = "draining") <=> (BacklogChange < 0)
            /\ (stats_line'[1].trend = "stable") <=> (BacklogChange = 0)]_vars

\* A line labelled draining has been printed while the backlog is positive,
\* after an earlier printed sample.
C22_Witness ==
    /\ Len(stats_line) = 1
    /\ stats_line[1].trend = "draining"
    /\ stats_line[1].backlog > 0

(***************************************************************************)
(* C23. Monitor is read-only: a step of the Monitor thread leaves          *)
(* enqueued, written, the queue, its unfinished-task count and the stop    *)
(* event unchanged, as it leaves every variable of the calling thread and  *)
(* of the Writer unchanged; and every step of the three threads together   *)
(* is a Monitor step of this kind or a step of make, the Producer or the   *)
(* Writer as they are without the Monitor, so that the Monitor adds no     *)
(* Producer/Writer/queue state.                                            *)
(***************************************************************************)
\* The variables of the calling thread, the Writer, the queue, the stop
\* event and the counters.
pipeline_vars ==
    <<mpc, sources, exc, plat, idx, ppc, nyield, entry_p, entry_queue,
      unfinished, stop_event, enqueued, written, wpc, entry_w, wexc,
      yieldLog, putLog, dbLog, stopCount, db_line, report, ncalls>>

\* The variables only the Monitor thread writes.
monitor_vars == <<enq, wr, last_enqueued, last_written, stats_line>>

C23_MonitorReadOnly ==
    /\ [][(mon' # mon /\ mon # "unstarted") =>
            UNCHANGED <<enqueued, written, entry_queue, unfinished, stop_event>>]_vars
    /\ [][monitor_vars' # monitor_vars => pipeline_vars' = pipeline_vars]_vars
    /\ [][pipeline_vars' = pipeline_vars \/ Next]_vars
    /\ [](lock \in {"free", "monitor", "writer"})
    /\ [](lock = "monitor" <=> mon = "read_wr")

\* The Monitor has printed a line and sampled again while records move.
C23_Witness ==
    /\ mon = "decide"
    /\ last_enqueued >= 1
    /\ enq > last_enqueued
    /\ Len(entry_queue) > 0
    /\ wpc = "insert"

(***************************************************************************)
(* C24. put() blocking condition.  The claim as stated: put() does not     *)
(* return while maxsize records are accepted and not yet acknowledged, so  *)
(* the accepted, unacknowledged records (the one the Writer holds          *)
(* included) are never more than maxsize.                                  *)
(***************************************************************************)
\* put() returns in this step.
PutReturns == Len(putLog') = Len(putLog) + 1

C24_Original ==
    /\ [][PutReturns => unfinished < maxsize]_vars
    /\ [](unfinished <= maxsize)

(***************************************************************************)
(* C24, amended.  put() returns exactly when the queue holds fewer than    *)
(* maxsize records (put and not yet dequeued): a waiting put() can return  *)
(* if and only if that is so.  The records in the queue are never more     *)
(* than maxsize, and the accepted, unacknowledged records never more than  *)
(* maxsize + 1: those in the queue and the one the Writer has dequeued.    *)
(***************************************************************************)
C24_PutBlocking ==
    /\ [][PutReturns => (Len(entry_queue) < maxsize /\ ppc = "put")]_vars
    /\ []((mpc = "process" /\ ppc = "put") =>
             (ENABLED ProducerPut <=> Len(entry_queue) < maxsize))
    /\ [](Len(entry_queue) <= maxsize)
    /\ [](unfinished <= maxsize + 1)
    /\ [](unfinished = maxsize + 1 =>
             (Len(entry_queue) = maxsize /\ DequeuedUnacknowledged = 1))

\* put() can return although maxsize records are unacknowledged: one of
\* them is in the Writer's hands.
C24_Witness ==
    /\ mpc = "process"
    /\ ppc = "put"
    /\ unfinished = maxsize
    /\ Len(entry_queue) = maxsize - 1
    /\ wpc = "insert"

(***************************************************************************)
(* C25. Writer exit condition: unless insert_entry has raised, the Writer  *)
(* leaves its loop only in a step that finds stop set and the queue empty, *)
(* and it does leave in such a step; a Writer that has left its loop so    *)
(* has stop set, the queue empty and every record put acknowledged.        *)
(***************************************************************************)
C25_WriterExit ==
    /\ [][(wpc # "close" /\ wpc' = "close" /\ wexc' = "none") =>
            (wpc = "loop" /\ stop_event /\ Len(entry_queue) = 0)]_vars
    /\ [][(wpc = "loop" /\ wpc' # wpc) =>
            ((wpc' = "close") <=> (stop_event /\ Len(entry_queue) = 0))]_vars
    /\ []((wpc \in {"close", "done"} /\ wexc = "none") =>
             (stop_event /\ Len(entry_queue) = 0 /\ unfinished = 0))
    /\ [][(wpc' = "done" /\ wpc # "done") => (wpc = "close" /\ wexc = "none")]_vars

\* The Writer has left its loop after the records of two sources.
C25_Witness ==
    /\ wpc = "close"
    /\ wexc = "none"
    /\ written >= 2
    /\ \E i, j \in 1..Len(Persisted) : SourceOf(Persisted[i]) # SourceOf(Persisted[j])

(***************************************************************************)
(* C26. Writer step order per record: for each dequeued record the Writer  *)
(* calls insert_entry, then increments written, then calls task_done.  So  *)
(* in every state acknowledged <= written <= completed inserts, each gap   *)
(* at most one, and once entry_queue.join() has returned written equals    *)
(* the number of records the queue accepted.                               *)
(***************************************************************************)
\* The records for which task_done has been called.
Acknowledged == Len(putLog) - unfinished

C26_WriterStepOrder ==
    /\ [](Acknowledged <= written /\ written <= Acknowledged + 1)
    /\ [](written <= Len(Persisted) /\ Len(Persisted) <= written + 1)
    /\ [][Len(dbLog') > Len(dbLog) /\ dbLog'[Len(dbLog')].op = "insert" =>
            (written = Acknowledged /\ written = Len(Persisted)
             /\ dbLog'[Len(dbLog')].entry = entry_w)]_vars
    /\ [][written' # written =>
            (Len(Persisted) = written + 1 /\ Acknowledged = written
             /\ Persisted[Len(Persisted)] = entry_w)]_vars
    /\ [][unfinished' < unfinished =>
            (written = Acknowledged + 1 /\ written = Len(Persisted))]_vars
    /\ [](mpc \in {"set_stop", "w_join", "static", "returned", "raised"} =>
             written = Len(putLog))

\* The second record is inserted and counted, its task_done is still to come.
C26_Witness ==
    /\ wpc = "task_done"
    /\ written = 2
    /\ Acknowledged = 1
    /\ Len(Persisted) = 2

(***************************************************************************)
(* C27. Empty-queue timeout is not an error: a get() that finds the queue  *)
(* empty makes no persistence call, changes neither counter, calls no      *)
(* task_done, leaves the queue alone and takes the Writer back to its loop *)
(* condition with no exception pending; and from there the Writer does not *)
(* leave the loop while stop is unset.                                     *)
(***************************************************************************)
C27_TimeoutNotAnError ==
    /\ [][(wpc = "get" /\ wpc' # wpc /\ Len(entry_queue) = 0) =>
            /\ wpc' = "loop"
            /\ wexc' = "none"
            /\ UNCHANGED <<dbLog, enqueued, written, unfinished, entry_queue,
                           entry_w, stop_event>>]_vars
    /\ [][(wpc = "get" /\ wpc' # wpc /\ Len(entry_queue) > 0) =>
            wpc' = "insert"]_vars
    /\ [][(wpc = "loop" /\ ~stop_event) => wpc' \in {"loop", "get"}]_vars
    /\ [](wpc = "get" => wexc = "none")

\* stop has been set while the Writer waits in get(): the queue is empty
\* and stays so, the get() times out.
C27_Witness ==
    /\ wpc = "get"
    /\ Len(entry_queue) = 0
    /\ stop_event
    /\ written >= 2

\* "for entry in entries": the Producer loop asks the chain of the current
\* source for its next entry; the chain yields one, is exhausted (on to
\* the next source) or raises (process_sources is left).
ProducerRequest ==
    /\ mpc = "process"
    /\ ppc = "next"
    /\ LET r == request(Len(sources[plat][idx].parsers),
                        [c |-> chain, log |-> scrapeLog, ap |-> applied])
       IN  /\ chain' = r.m.c
           /\ scrapeLog' = r.m.log
           /\ applied' = r.m.ap
           /\ CASE r.res = "entry" ->
                    /\ nyield' = nyield + 1
                    /\ entry_p' = r.entry
                    /\ yieldLog' = Append(yieldLog, r.entry)
                    /\ ppc' = "put"
                    /\ UNCHANGED <<mpc, exc, idx>>
                [] r.res = "stop" ->
                    /\ idx' = idx + 1
                    /\ ppc' = "open"
                    /\ UNCHANGED <<mpc, exc, nyield, entry_p, yieldLog>>
                [] r.res = "raise" ->
                    /\ LeaveProcess(r.exc)
                    /\ UNCHANGED <<idx, nyield, entry_p, yieldLog>>
    /\ UNCHANGED <<sources, plat, entry_queue, unfinished, stop_event, enqueued,
                   written, lock, wpc, entry_w, wexc, mon, enq, wr, last_enqueued,
                   last_written, putLog, dbLog, stopCount, stats_line, db_line,
                   ncalls, web, direct_fetch, report,
                   libretro_platforms>>

\* The calling thread with the chains of its sources run on the network
\* given, up to the end of process_sources; the Writer and the Monitor are
\* started and take no step.
NextChain ==
    \/ MakeLoadWeb
    \/ MakeStartWriter
    \/ MakeStartMonitor
    \/ ProducerOpen
    \/ ProducerRequest
    \/ ProducerPut
    \/ ProducerInc

SpecChain == Init /\ [][NextChain]_vars

(***************************************************************************)
(* C28. Collaborator fetch failures are non-fatal: a failed network fetch  *)
(* inside a scraper or parser never propagates an exception to the         *)
(* Producer loop (no exception but the RuntimeError of an unknown name     *)
(* leaves process_sources); a URL whose fetch                              *)
(* fails contributes no records, the scraper goes on with the next URL and *)
(* yields the records of the fetched URLs in URL order.                    *)
(***************************************************************************)
\* The entries of the rows of one fetched listing that have links, in the
\* order of the rows.
RECURSIVE RowsFetched(_, _, _, _)
RowsFetched(src, rows, u, k) ==
    IF k > Len(rows) THEN <<>>
    ELSE (IF RowResult(rows[k]) = "entry" THEN <<EntryOf(src, u, k)>> ELSE <<>>)
         \o RowsFetched(src, rows, u, k + 1)

\* The entries of the URLs of the source src whose fetch gave a response,
\* in URL order.
RECURSIVE FetchedFrom(_, _, _)
FetchedFrom(src, urls, u) ==
    IF u > Len(urls) THEN <<>>
    ELSE (IF urls[u].ok THEN RowsFetched(src, urls[u].rows, u, 1) ELSE <<>>)
         \o FetchedFrom(src, urls, u + 1)

Fetched(src) == FetchedFrom(src, web[src[1]][src[2]], 1)

\* The whole output of the scraper of the source src on the network given:
\* for a scraper with a URL loop the entries of the fetched URLs in URL
\* order, for internet_archive the list it builds.
ScraperOutput(src) ==
    IF sources[src[1]][src[2]].scraper = "internet_archive"
    THEN ia_list(src, web[src[1]][src[2]], 1).list
    ELSE Fetched(src)

Range(q) == {q[i] : i \in 1..Len(q)}

\* The chain of the source src was exhausted: the Producer loop is past it.
Exhausted(src) == src[1] < plat \/ (src[1] = plat /\ src[2] < idx)

\* The loop of the Producer over the source src is over, by exhaustion or
\* by an exception.
Over(src) == Exhausted(src) \/ (ppc = "left" /\ src = <<plat, idx>>)

\* A scraper produces the entries of its fetched URLs in URL order, and all
\* of them once its chain is exhausted.
ScrapedInUrlOrder ==
    \A src \in SourcePositions :
        /\ IsPrefix(OfSource(scrapeLog, src), Fetched(src))
        /\ Exhausted(src) => OfSource(scrapeLog, src) = Fetched(src)

C28_FetchFailuresNonFatal ==
    /\ exc # "Exception"
    /\ ScrapedInUrlOrder

\* What holds of the order: a scraper with a URL loop produces the entries
\* of its fetched URLs in URL order; internet_archive produces the entries
\* of its fetched URLs, each once, in the order of its list, or none when
\* its call raised.
ScrapedAsListed ==
    \A src \in SourcePositions :
        /\ IsPrefix(OfSource(scrapeLog, src), ScraperOutput(src))
        /\ Exhausted(src) => OfSource(scrapeLog, src) = ScraperOutput(src)
        /\ Range(ScraperOutput(src)) \subseteq Range(Fetched(src))
        /\ Len(ScraperOutput(src)) \in {0, Len(Fetched(src))}
        /\ sources[src[1]][src[2]].scraper = "internet_archive" =>
                OfSource(scrapeLog, src) \in {<<>>, ScraperOutput(src)}

\* A request of libretro.parse or of nopaystation.parse_links has raised
\* into the Producer loop.
FetchRaised == direct_fetch = "raise" /\ exc = "Exception" /\ ppc = "left"

(***************************************************************************)
(* C29. Parser chain composition: the parsers of a source are applied in   *)
(* the configured order, each to the output of the stage before it, and    *)
(* every parser yields exactly one record per input record in input order, *)
(* so that the records put on the queue for a source are those its scraper *)
(* yielded, in number and order.                                           *)
(***************************************************************************)
\* Every entry the chain has yielded was processed by each parser of its
\* source once, in the configured order.
AppliedInOrder ==
    \A k \in 1..Len(yieldLog) :
        applied[yieldLog[k]] = sources[yieldLog[k][1]][yieldLog[k][2]].parsers

\* The records put for a source are the first of those its scraper yielded.
PutPrefixOfScraped ==
    \A src \in SourcePositions :
        IsPrefix(OfSource(putLog, src), OfSource(scrapeLog, src))

C29_ChainComposition ==
    /\ AppliedInOrder
    /\ PutPrefixOfScraped
    /\ \A src \in SourcePositions :
            Over(src) => OfSource(putLog, src) = OfSource(scrapeLog, src)

\* The same for the sources whose chain was exhausted, which holds.
ComposedWhenExhausted ==
    /\ AppliedInOrder
    /\ PutPrefixOfScraped
    /\ \A src \in SourcePositions :
            Exhausted(src) => OfSource(putLog, src) = OfSource(scrapeLog, src)

(***************************************************************************)
(* C30. Monitor termination: the Monitor runs until the stop event is set  *)
(* (it leaves its loop only with the event set) and then terminates: at    *)
(* the head of its loop with the event set it exits and starts no sample,  *)
(* so it completes at most the sample it was taking, and a scheduled       *)
(* Monitor has exited some time after the event is set.  make never waits  *)
(* for the Monitor: its writer_thread.join() returns whatever the Monitor  *)
(* does, so make can return with the Monitor thread alive.                 *)
(***************************************************************************)
\* The Monitor thread was started and has not left monitor_worker.
MonitorAlive == mon \notin {"unstarted", "done"}

C30_MonitorTermination ==
    /\ [](mon = "done" => stop_event)
    /\ [][(mon = "check" /\ ~stop_event) => mon' \in {"check", "sample"}]_vars
    /\ [][(mon = "check" /\ stop_event) => mon' \in {"check", "done"}]_vars
    /\ [][mon = "done" => mon' = "done"]_vars
    /\ stop_event ~> (mon = "done")
    /\ []((mpc = "w_join" /\ wpc \in {"done", "dead"}) => ENABLED MakeWriterJoin)
    /\ [](mpc = "static" => ENABLED MakeMoveStatic)

\* make has returned while the Monitor, in the middle of a sample, is alive.
C30_Witness == mpc = "returned" /\ stop_event /\ mon = "decide"

(***************************************************************************)
(* C31. Drain never completes after a persistence failure: once            *)
(* insert_entry has raised, the failing record is out of the queue and     *)
(* task_done is never called for it, nothing more is taken from the queue, *)
(* so the count of unacknowledged records stays at one or more,            *)
(* entry_queue.join() in the finally block of make never returns, stop is  *)
(* never set, and make neither returns nor raises; this is so, too, when   *)
(* the Producer had put all its records before.                            *)
(***************************************************************************)
\* The record whose insert_entry call raised.
FailedEntry ==
    LET i == CHOOSE i \in 1..Len(dbLog) :
                 dbLog[i].op = "insert" /\ dbLog[i].outcome = "raise"
    IN  dbLog[i].entry

InQueue(e) == \E i \in 1..Len(entry_queue) : entry_queue[i] = e

C31_DrainNeverCompletes ==
    /\ [](InsertRaised =>
            /\ FailedEntry = entry_w
            /\ ~InQueue(FailedEntry)
            /\ DequeuedUnacknowledged = 1
            /\ unfinished = Len(entry_queue) + 1
            /\ ~JoinReturns
            /\ ~stop_event
            /\ mpc \in {"process", "q_join"})
    /\ [][InsertRaised =>
            /\ InsertRaised'
            /\ IsPrefix(entry_queue, entry_queue')
            /\ unfinished' >= unfinished
            /\ Len(dbLog') - CloseCount' = Len(dbLog) - CloseCount]_vars

\* The Producer has put all its records and waits in entry_queue.join();
\* insert_entry raised on the first record, the Writer thread has ended and
\* the second record is still in the queue.
C31_Witness ==
    /\ InsertRaised
    /\ wpc = "dead"
    /\ mpc = "q_join"
    /\ exc = "none"
    /\ Len(putLog) = 2
    /\ Len(entry_queue) = 1
    /\ unfinished = 2

(***************************************************************************)
(* C32. Lazy name resolution: the names of a source are resolved when the  *)
(* Producer loop comes to it.  When RuntimeError is raised for an unknown  *)
(* scraper or parser name, the loop is at the first source k whose names   *)
(* do not resolve, the Writer and the Monitor have been started, every     *)
(* record the sources before k yielded has been put, and no record of      *)
(* source k or of a later source is put then or later; and when the error  *)
(* reaches the caller of make, every record put has been persisted.        *)
(***************************************************************************)
\* Source a comes before source b in the configured iteration order.
SourceBefore(a, b) == SourceLeq(a, b) /\ a # b

NameError == exc = "RuntimeError"

C32_LazyResolution ==
    /\ [](NameError =>
            /\ wpc # "unstarted"
            /\ mon # "unstarted"
            /\ <<plat, idx>> \in SourcePositions
            /\ ~Registered(sources[plat][idx])
            /\ \A src \in SourcePositions :
                    SourceBefore(src, <<plat, idx>>) => Registered(sources[src[1]][src[2]])
            /\ putLog = yieldLog
            /\ \A i \in 1..Len(putLog) : SourceBefore(SourceOf(putLog[i]), <<plat, idx>>))
    /\ [][NameError => (NameError' /\ putLog' = putLog /\ yieldLog' = yieldLog)]_vars
    /\ []((NameError /\ mpc = "raised") =>
            /\ Persisted = putLog
            /\ unfinished = 0
            /\ wpc \in {"done", "dead"})

\* The second source names an unknown parser: the error has reached the
\* caller after the two records of the first source were put and persisted.
C32_Witness ==
    /\ NameError
    /\ mpc = "raised"
    /\ <<plat, idx>> = <<1, 2>>
    /\ Len(putLog) = 2
    /\ Persisted = putLog

(***************************************************************************)
(* C33. Init failure path: when init_database has raised, the Writer       *)
(* thread has ended, and it never calls close_database or any other        *)
(* persistence operation and never takes a record from the queue: every    *)
(* record put, before or after, stays in the queue, neither persisted nor  *)
(* acknowledged.                                                           *)
(***************************************************************************)
InitRaised ==
    Len(dbLog) >= 1 /\ dbLog[1].op = "init" /\ dbLog[1].outcome = "raise"

C33_InitFailure ==
    /\ [](InitRaised =>
            /\ wpc = "dead"
            /\ wexc = "init"
            /\ Len(dbLog) = 1
            /\ CloseCount = 0
            /\ Persisted = <<>>
            /\ entry_queue = putLog
            /\ unfinished = Len(putLog)
            /\ written = 0)
    /\ [][InitRaised => (InitRaised' /\ IsPrefix(entry_queue, entry_queue'))]_vars

\* init_database has raised; the Producer has since filled the queue.
C33_Witness ==
    /\ InitRaised
    /\ Len(putLog) = maxsize
    /\ entry_queue = putLog
    /\ unfinished = maxsize
    /\ enqueued = maxsize

(***************************************************************************)
(* C34. Queue occupancy bound: in every state the number of records held   *)
(* in entry_queue, those put and not yet dequeued, is between 0 and the    *)
(* capacity maxsize the queue was built with (2000 in make.py, scaled down *)
(* here); the capacity is the same in every state of a run.                *)
(***************************************************************************)
\* The records get() has returned: those passed to insert_entry and the
\* one in the Writer's hands.
Dequeued == Inserted \o InHand

C34_OccupancyBound ==
    /\ Len(entry_queue) \in 0..maxsize
    /\ putLog = Dequeued \o entry_queue
    /\ Len(entry_queue) = Len(putLog) - Len(Dequeued)

\* The queue is at capacity, the Producer waits in put() with a further
\* record and the Writer is about to call get().
C34_Witness ==
    /\ Len(entry_queue) = maxsize
    /\ mpc = "process"
    /\ ppc = "put"
    /\ wpc = "get"
    /\ Len(Dequeued) = 1

(***************************************************************************)
(* C35. Batch versus streaming stages.  While the Producer loop is at a    *)
(* source: (a) when no_intro.parse has yielded a record, everything        *)
(* upstream of it is used up: the scraper has ended and each stage below   *)
(* has yielded every record of the source; (b) a stage of libretro,        *)
(* gametdb, mame or wii_rom_set_by_ghostware has taken from upstream only  *)
(* the records it has yielded (one more when libretro.parse raised, at its *)
(* request or at its lookup of a platform that is no key of PLATFORMS):    *)
(* record i+1 is requested after record i is yielded; (c) when a           *)
(* record of a source whose chain contains no_intro has been yielded to    *)
(* the Producer loop or put, the scraper of the source has produced its    *)
(* last record.                                                            *)
(***************************************************************************)
\* The Producer loop is at a source, inside "for entry in entries" or
\* thrown out of it.
AtSource ==
    /\ sources # <<>>
    /\ ppc \in {"next", "put", "inc", "left"}
    /\ <<plat, idx>> \in SourcePositions

HasNoIntro(src) ==
    \E j \in 1..Len(sources[src[1]][src[2]].parsers) :
        sources[src[1]][src[2]].parsers[j] = "no_intro"

\* The scraper of the current source has ended.
ScraperEnded ==
    IF sources[plat][idx].scraper = "internet_archive"
    THEN chain.scraped
    ELSE chain.u > Len(web[plat][idx])

\* The number of records stage j of the chain of the current source has
\* yielded to the stage above it; stage 0 is the scraper (for the list of
\* internet_archive.scrape: the items taken from the list).
YieldedBy(j) ==
    IF j = 0
    THEN Len(OfSource(scrapeLog, <<plat, idx>>)) - Len(chain.ia_entries)
    ELSE Cardinality({e \in DOMAIN applied :
                        SourceOf(e) = <<plat, idx>> /\ Len(applied[e]) >= j})

BatchStage(j) ==
    YieldedBy(j) >= 1 =>
        /\ chain.listed
        /\ ScraperEnded
        /\ OfSource(scrapeLog, <<plat, idx>>) = ScraperOutput(<<plat, idx>>)
        /\ \A h \in 0..(j - 1) : YieldedBy(h) = Len(ScraperOutput(<<plat, idx>>))

StreamingStage(j) ==
    /\ YieldedBy(j - 1) - YieldedBy(j) \in {0, 1}
    /\ YieldedBy(j - 1) # YieldedBy(j) =>
            /\ sources[plat][idx].parsers[j] = "libretro"
            /\ \/ direct_fetch = "raise" /\ exc = "Exception"
               \/ plat \notin libretro_platforms /\ exc = "KeyError"

C35_BatchVersusStreaming ==
    /\ AtSource =>
            /\ \A j \in 1..Len(sources[plat][idx].parsers) :
                    IF sources[plat][idx].parsers[j] = "no_intro"
                    THEN BatchStage(j)
                    ELSE StreamingStage(j)
            /\ YieldedBy(Len(sources[plat][idx].parsers))
                    = Len(OfSource(yieldLog, <<plat, idx>>))
            /\ (HasNoIntro(<<plat, idx>>) /\ nyield >= 1) => ScraperEnded
    /\ \A src \in SourcePositions :
            (HasNoIntro(src) /\ OfSource(yieldLog, src) # <<>>) =>
                OfSource(scrapeLog, src) = ScraperOutput(src)

\* A source of two URLs with one row each and the chain libretro, no_intro:
\* the scraper has produced both records and ended, libretro has yielded
\* both, and the first record is about to be put.
C35_Witness ==
    /\ AtSource
    /\ sources[plat][idx].parsers = <<"libretro", "no_intro">>
    /\ sources[plat][idx].scraper = "myrient"
    /\ Len(web[plat][idx]) = 2
    /\ ppc = "put"
    /\ putLog = <<>>
    /\ Len(scrapeLog) = 2
    /\ ScraperEnded
    /\ YieldedBy(1) = 2
    /\ YieldedBy(2) = 1

=============================================================================
